---------------------------- MODULE Spec2Model ----------------------------
(***************************************************************************)
(* KiCAD-ProcessAutomation: the S-expression folder and the structural     *)
(* extractors of SExpressions.py, and the title-block line patcher of      *)
(* CIExport.py (TitleBlockParser), the datasheet fetcher of                 *)
(* DatasheetChecker.py, the position comparison of DiffPositions.py and    *)
(* the project export of CIExport.py (KiCadCIExporter).                    *)
(*                                                                         *)
(* Python values are tagged records [k, v]:                                *)
(*   k = "str"   v = the string                                            *)
(*   k = "list"  v = the sequence of the elements                          *)
(*   k = "dict"  v = a function from the keys (strings) to the values      *)
(*   k = "none"  None                                                      *)
(*   k = "exc"   v = the name of the exception the call ended with         *)
(* A raw tree (what pyparsing's asList() hands to to_dict) is made of      *)
(* "str" and "list" values only.                                           *)
(***************************************************************************)
EXTENDS Integers, Sequences, FiniteSets, TLC

VARIABLES
    sexpr,      \* parsed_data[0]: the raw tree parse_sexpr folds
    tree,       \* the folded tree parse_sexpr returned (None before the call)
    calls,      \* the extractor calls made on tree so far: <<[fn, ret], ...>>
    fs,         \* the files: path -> bytes, for the paths that exist
    linesep,    \* os.linesep of the platform
    lines_without_title_block,  \* the attribute of the TitleBlockParser in use
    title_block_data,           \* what its last parse returned
    ops,        \* the title-block operations made so far, with their effects
    url_dict,   \* the argument of fetch_and_verify_urls: <<<<symbol, url>>, ...>>
    web,        \* the servers: url -> the Location it redirects to
    queues,     \* host -> the items waiting in its asyncio.Queue
    workers,    \* the worker tasks, in the order of their creation
    tasks_done,     \* DatasheetFetcher.tasks_done
    tasks_total,    \* DatasheetFetcher.tasks_total
    results,    \* the list results of fetch_and_verify_urls
    returned,   \* what fetch_and_verify_urls returned (None before it returns)
    taken,      \* the items the workers got from the queues: <<<<worker, symbol>>, ...>>
    report,     \* the counts process_library reports (None before it does)
    old_pos,    \* the position table of the old PCB: refdes -> component
    new_pos,    \* the position table of the new PCB
    changes,    \* what compare_pcbs returned (None before the call)
    args,       \* the --no-* flags of the CIExport command line (None before it is read)
    enabled_exports,    \* KiCadCIExporter.enabled_exports
    exports     \* the calls of export_kicad_project made so far, with their effects

sexprVars == <<sexpr, tree, calls>>
tbVars == <<fs, linesep, lines_without_title_block, title_block_data, ops>>
fetchVars ==
    <<url_dict, web, queues, workers, tasks_done, tasks_total, results, returned, taken, report>>
diffVars == <<old_pos, new_pos, changes>>
exportVars == <<args, enabled_exports, exports>>


Str(s) == [k |-> "str", v |-> s]
Lst(xs) == [k |-> "list", v |-> xs]
Dct(f) == [k |-> "dict", v |-> f]
Exc(name) == [k |-> "exc", v |-> name]
NoneV == [k |-> "none", v |-> "None"]
EmptyDict == [key \in {} |-> NoneV]

\* No DatasheetFetcher has been made.
FetchIdle ==
    /\ url_dict = <<>>
    /\ web = <<>>
    /\ queues = <<>>
    /\ workers = <<>>
    /\ tasks_done = 0
    /\ tasks_total = 0
    /\ results = <<>>
    /\ returned = NoneV
    /\ taken = <<>>
    /\ report = NoneV

\* CIExport has not been started.
ExportIdle ==
    /\ args = NoneV
    /\ enabled_exports = NoneV
    /\ exports = <<>>

\* No position tables have been read.
DiffIdle ==
    /\ old_pos = NoneV
    /\ new_pos = NoneV
    /\ changes = NoneV

\* No file has been touched and no TitleBlockParser made.
TitleBlockIdle ==
    /\ fs = <<>>
    /\ linesep = <<"\n">>
    /\ lines_without_title_block = NoneV
    /\ title_block_data = NoneV
    /\ ops = <<>>

IsStr(x) == x.k = "str"
IsList(x) == x.k = "list"
IsDict(x) == x.k = "dict"
IsExc(x) == x.k = "exc"
IsNone(x) == x.k = "none"

\* The first exception of a sequence of values, in order (the one Python raises).
FirstExc(xs) == xs[CHOOSE i \in 1..Len(xs) : IsExc(xs[i]) /\ \A j \in 1..(i-1) : ~IsExc(xs[j])]
AnyExc(xs) == \E i \in 1..Len(xs) : IsExc(xs[i])

\* dict.get(key) and dict.get(key, default)
Get(d, key) == IF key \in DOMAIN d.v THEN d.v[key] ELSE NoneV
GetOr(d, key, default) == IF key \in DOMAIN d.v THEN d.v[key] ELSE default

\* The characters of the atoms that the model iterates or measures as strings.
Chars(s) ==
    CASE s = "" -> <<>>
      [] s = "a" -> <<"a">>
      [] s = "aa" -> <<"a", "a">>
      [] s = "z" -> <<"z">>
      [] s = "q" -> <<"q">>
      [] s = "1" -> <<"1">>
      [] s = "2" -> <<"2">>
      [] s = "cd" -> <<"c", "d">>
      [] s = "zz" -> <<"z", "z">>

\* Iterating a Python string yields its characters, each a string.
StrItems(s) == [i \in 1..Len(Chars(s)) |-> Str(Chars(s)[i])]

(***************************************************************************)
(* parse_sexpr.to_dict                                                     *)
(***************************************************************************)

\* (CollapseNoUnwrap: the rule without its second step.)
\* Lines 96-100: a folded child with exactly the keys tag and positional is
\* replaced by value["positional"], and by value[0] when len(value) == 1.
\* value["positional"] is a list unless a named child called positional put a
\* string or a dictionary there: value[0] of a one-character string is the
\* string, value[0] of a dictionary with string keys is a KeyError.
CollapseNoUnwrap(value) ==
    IF DOMAIN value.v = {"tag", "positional"} THEN value.v["positional"] ELSE value

Collapse(value) ==
    IF DOMAIN value.v = {"tag", "positional"}
    THEN LET p == value.v["positional"] IN
         CASE IsList(p) -> IF Len(p.v) = 1 THEN p.v[1] ELSE p
           [] IsStr(p) -> p
           [] IsDict(p) -> IF Cardinality(DOMAIN p.v) = 1 THEN Exc("KeyError") ELSE p
    ELSE value

\* Lines 101-106: d[key] = value for a new key; for a key already in d the old
\* value is wrapped in a list unless it is a list already, and value appended.
Store(d, key, value) ==
    IF key \in DOMAIN d
    THEN LET old == IF IsList(d[key]) THEN d[key] ELSE Lst(<<d[key]>>)
         IN [d EXCEPT ![key] = Lst(Append(old.v, value))]
    ELSE (key :> value) @@ d

\* d.setdefault('positional', []).extend(items) (and .append(item) with one
\* item): an AttributeError when d['positional'] is not a list. The result is
\* the dictionary as a "dict" value, or the exception.
AddPositionalAssign(d, items) == Dct(("positional" :> Lst(items)) @@ d)

AddPositional(d, items) ==
    IF "positional" \notin DOMAIN d THEN Dct(("positional" :> Lst(items)) @@ d)
    ELSE IF IsList(d["positional"])
         THEN Dct([d EXCEPT !["positional"] = Lst(@.v \o items)])
         ELSE Exc("AttributeError")

RECURSIVE to_dict(_)
RECURSIVE to_dict_loop(_, _, _)

\* The for loop of to_dict from item i (1-based) on, d the dictionary so far.
to_dict_loop(lst, i, d) ==
    IF i > Len(lst) THEN Dct(d)
    ELSE LET item == lst[i] IN
      IF IsList(item)
      THEN IF Len(item.v) = 0 THEN Exc("IndexError")
           ELSE IF IsStr(item.v[1])
           THEN LET key == item.v[1].v
                    sub == to_dict(item)
                IN IF IsExc(sub) THEN sub
                   ELSE LET value == Collapse(sub) IN
                        IF IsExc(value) THEN value
                        ELSE to_dict_loop(lst, i + 1, Store(d, key, value))
           ELSE LET positional == [j \in 1..Len(item.v) |-> to_dict(item.v[j])] IN
                IF AnyExc(positional) THEN FirstExc(positional)
                ELSE LET d2 == AddPositional(d, positional) IN
                     IF IsExc(d2) THEN d2
                     ELSE to_dict_loop(lst, i + 1, d2.v)
      ELSE IF i = 1
           THEN to_dict_loop(lst, i + 1, ("tag" :> item) @@ d)
           ELSE LET d2 == AddPositional(d, <<item>>) IN
                IF IsExc(d2) THEN d2
                ELSE to_dict_loop(lst, i + 1, d2.v)

\* to_dict(lst): lst is a list, or (an atom inside an anonymous group) a string,
\* whose characters the loop then enumerates.
to_dict(lst) ==
    IF IsStr(lst) THEN to_dict_loop(StrItems(lst.v), 1, EmptyDict)
    ELSE to_dict_loop(lst.v, 1, EmptyDict)


\* parse_sexpr, after pyparsing: return to_dict(parsed_data[0])
parse_sexpr(parsed_data0) == to_dict(parsed_data0)

(***************************************************************************)
(* Inputs of the folder: raw trees of bounded width whose elements are     *)
(* drawn from a fixed list of shapes (an atom, one-atom and two-atom       *)
(* lists, a list with a named child, named children called tag and         *)
(* positional, anonymous groups).                                          *)
(***************************************************************************)
MaxChildren == 3

L1(a) == Lst(<<Str(a)>>)
L2(a, b) == Lst(<<Str(a), Str(b)>>)
L3(a, b, c) == Lst(<<Str(a), Str(b), Str(c)>>)

Shapes ==
    << Str("lib"),                                   \* lib
       L2("a", "1"),                                 \* (a 1)
       L2("b", "2"),                                 \* (b 2)
       L2("version", "20220914"),                    \* (version 20220914)
       L3("property", "A", "1"),                     \* (property "A" "1")
       L3("property", "B", "2"),                     \* (property "B" "2")
       Lst(<<Str("property"), Str("C"), L2("at", "0")>>), \* (property "C" (at 0))
       L1("hide"),                                   \* (hide)
       L2("tag", "q"),                               \* (tag q)
       L2("positional", "z"),                        \* (positional z)
       Lst(<<L2("a", "1"), L2("b", "2")>>),          \* ((a 1) (b 2))
       Lst(<<L2("a", "1"), Str("cd")>>),             \* ((a 1) cd)
       Lst(<<Str("node"), L1("positional")>>) >>     \* (node (positional))

RawTrees ==
    UNION { { Lst([i \in 1..n |-> Shapes[f[i]]]) : f \in [1..n -> 1..Len(Shapes)] }
            : n \in 1..MaxChildren }

(***************************************************************************)
(* parse_sexpr as an operation: a call folds the raw tree into a new       *)
(* folded tree, on which no extractor has run yet.                         *)
(***************************************************************************)
ParseSexpr ==
    /\ tree' = parse_sexpr(sexpr)
    /\ calls' = <<>>
    /\ UNCHANGED <<sexpr, tbVars, fetchVars, diffVars, exportVars>>

InitFold ==
    /\ sexpr \in RawTrees
    /\ tree = NoneV
    /\ calls = <<>>
    /\ TitleBlockIdle
    /\ FetchIdle
    /\ DiffIdle
    /\ ExportIdle

NextFold == ParseSexpr

vars == <<sexprVars, tbVars, fetchVars, diffVars, exportVars>>

SpecFold == InitFold /\ [][NextFold]_vars

(***************************************************************************)
(* Properties of the folder, stated on the root of the raw tree.           *)
(***************************************************************************)
IsNamedChild(item) == IsList(item) /\ Len(item.v) > 0 /\ IsStr(item.v[1])
IsAnonymousGroup(item) == IsList(item) /\ Len(item.v) > 0 /\ ~IsStr(item.v[1])

\* The heads of the root's named children, and the places where a head occurs.
NamedKeys(root) == { root.v[i].v[1].v : i \in { j \in 1..Len(root.v) : IsNamedChild(root.v[j]) } }
Occurrences(root, key) ==
    { i \in 1..Len(root.v) : IsNamedChild(root.v[i]) /\ root.v[i].v[1].v = key }

\* The elements of a set of naturals in ascending order.
RECURSIVE Ascending(_)
Ascending(S) ==
    IF S = {} THEN <<>>
    ELSE LET m == CHOOSE x \in S : \A y \in S : x <= y IN <<m>> \o Ascending(S \ {m})

\* What the collapse rule says a folded child is stored as.
StoredForm(folded) ==
    IF DOMAIN folded.v = {"tag", "positional"}
    THEN LET p == folded.v["positional"] IN
         IF IsList(p) /\ Len(p.v) = 1 THEN p.v[1] ELSE p
    ELSE folded

\* What belongs to the root's positional entry: its atoms after the first
\* element and the folded elements of its anonymous groups, in source order.
RECURSIVE ExpectedPositional(_, _)
ExpectedPositional(root, i) ==
    IF i > Len(root.v) THEN <<>>
    ELSE LET item == root.v[i]
             here == IF IsStr(item) THEN (IF i = 1 THEN <<>> ELSE <<item>>)
                     ELSE IF IsAnonymousGroup(item)
                          THEN [j \in 1..Len(item.v) |-> to_dict(item.v[j])]
                          ELSE <<>>
         IN here \o ExpectedPositional(root, i + 1)

Folded == IsDict(tree)
PlainKeys(root) == NamedKeys(root) \ {"tag", "positional"}

\* C1: a key that occurs n >= 2 times among the children of the root folds to a
\* sequence of exactly n elements, the i-th being the folded and collapsed form
\* of the i-th occurrence, whatever that form is. (Stated for keys other than
\* tag and positional, which meet the root's own entries.)
C1_RepeatedKeyIsSequenceOfOccurrences ==
    Folded =>
      \A key \in PlainKeys(sexpr) :
         LET occ == Ascending(Occurrences(sexpr, key)) IN
         Len(occ) >= 2 =>
            tree.v[key] = Lst([i \in 1..Len(occ) |-> StoredForm(to_dict(sexpr.v[occ[i]]))])

C7_WitnessPositional ==
    /\ Folded
    /\ Len(sexpr.v) = 2 /\ IsAnonymousGroup(sexpr.v[1]) /\ IsAnonymousGroup(sexpr.v[2])
    /\ Len(tree.v["positional"].v) = 4

C9_TagAndPositionalOwn ==
    (~IsNone(tree) /\ IsStr(sexpr.v[1])) =>
       LET pos == ExpectedPositional(sexpr, 1) IN
       /\ Folded
       /\ "tag" \in DOMAIN tree.v /\ tree.v["tag"] = sexpr.v[1]
       /\ IF pos = <<>> THEN "positional" \notin DOMAIN tree.v
          ELSE "positional" \in DOMAIN tree.v /\ tree.v["positional"] = Lst(pos)


(***************************************************************************)
(* The structural extractors.                                              *)
(*                                                                         *)
(* A Python float is [k |-> "float", v |-> hundredths], an int is          *)
(* [k |-> "int", v |-> n]; a namedtuple is [k |-> its type name, v |-> the *)
(* record of its fields].                                                  *)
(***************************************************************************)
Flt(h) == [k |-> "float", v |-> h]
Int_(n) == [k |-> "int", v |-> n]

\* float(s) of the numeric atoms of the inputs, in hundredths.
FloatTable ==
    ("0" :> 0) @@ ("1" :> 100) @@ ("2" :> 200) @@ ("3" :> 300) @@ ("9" :> 900)
    @@ ("10" :> 1000) @@ ("90" :> 9000) @@ ("1.27" :> 127) @@ ("2.54" :> 254)
    @@ ("-2.54" :> -254) @@ ("-1.27" :> -127)

\* int(s) of the same atoms: a decimal point is a ValueError.
IntTable ==
    ("0" :> 0) @@ ("1" :> 1) @@ ("2" :> 2) @@ ("3" :> 3) @@ ("9" :> 9)
    @@ ("10" :> 10) @@ ("90" :> 90)

float(x) ==
    CASE IsExc(x) -> x
      [] IsStr(x) -> IF x.v \in DOMAIN FloatTable THEN Flt(FloatTable[x.v]) ELSE Exc("ValueError")
      [] OTHER -> Exc("TypeError")

int(x) ==
    CASE IsExc(x) -> x
      [] IsStr(x) -> IF x.v \in DOMAIN IntTable THEN Int_(IntTable[x.v]) ELSE Exc("ValueError")
      [] OTHER -> Exc("TypeError")

\* The operators below hand on an exception their argument raised: the
\* statement that reads x is then never reached.
\* x[key] with a string key: a KeyError on a dictionary without the key, a
\* TypeError on a string or a list.
Item(x, key) ==
    CASE IsExc(x) -> x
      [] IsDict(x) -> IF key \in DOMAIN x.v THEN x.v[key] ELSE Exc("KeyError")
      [] OTHER -> Exc("TypeError")

\* x[i] with an integer index i (0-based) on a list.
Index(x, i) ==
    CASE IsExc(x) -> x
      [] IsList(x) -> IF i < Len(x.v) THEN x.v[i + 1] ELSE Exc("IndexError")
      [] IsDict(x) -> Exc("KeyError")
      [] IsNone(x) -> Exc("TypeError")

\* a, b, ... = x with n targets: x must yield exactly n items.
Unpack(x, n) ==
    CASE IsExc(x) -> x
      [] IsList(x) -> IF Len(x.v) = n THEN x ELSE Exc("ValueError")
      [] IsNone(x) -> Exc("TypeError")

\* The items a for loop over x visits. The keys of a dictionary come in
\* insertion order, which the model does not keep: every caller fails on the
\* first key, whichever it is.
RECURSIVE KeySeq(_)
KeySeq(S) == IF S = {} THEN <<>> ELSE LET x == CHOOSE x \in S : TRUE IN <<Str(x)>> \o KeySeq(S \ {x})
Iter(x) ==
    CASE IsList(x) -> x.v
      [] IsDict(x) -> KeySeq(DOMAIN x.v)

\* if isinstance(x, dict): x = [x]
WrapIfDict(x) == IF IsDict(x) THEN Lst(<<x>>) ELSE x
\* if not isinstance(x, list): x = [x]
WrapIfNotList(x) == IF IsList(x) THEN x ELSE Lst(<<x>>)

\* The three checks every extractor makes on a symbol before it reads it
\* (lines 138-141, 158-161, 250-253): the symbol's name, or the exception.
SymbolName(symbol) ==
    IF ~IsDict(symbol) THEN Exc("AttributeError")
    ELSE IF IsNone(Get(symbol, "positional")) THEN Exc("AssertionError")
    ELSE IF ~IsList(Get(symbol, "positional")) \/ Len(Get(symbol, "positional").v) = 0
         THEN Exc("AssertionError")
    ELSE IF IsNone(Get(symbol, "property")) THEN Exc("AssertionError")
    ELSE symbol.v["positional"].v[1]

(***************************************************************************)
(* extract_datasheets                                                      *)
(***************************************************************************)
\* The loop over the properties of one symbol (lines 142-146).
RECURSIVE datasheets_of_properties(_, _, _, _)
datasheets_of_properties(properties, j, symbol_name, datasheets) ==
    IF j > Len(properties) THEN Dct(datasheets)
    ELSE LET prop == properties[j] IN
         IF ~IsDict(prop) THEN Exc("AttributeError")
         ELSE IF /\ Get(prop, "tag") = Str("property")
                 /\ LET positional == GetOr(prop, "positional", Lst(<<>>)) IN
                    IsList(positional) /\ \E n \in 1..Len(positional.v) : positional.v[n] = Str("Datasheet")
              THEN LET datasheet_url == Index(prop.v["positional"], 1) IN
                   IF IsExc(datasheet_url) THEN datasheet_url
                   ELSE datasheets_of_properties(properties, j + 1, symbol_name,
                                                 (symbol_name.v :> datasheet_url) @@ datasheets)
              ELSE datasheets_of_properties(properties, j + 1, symbol_name, datasheets)

\* The loop over the symbols (lines 137-146).
RECURSIVE datasheets_of_symbols(_, _, _)
datasheets_of_symbols(symbols, i, datasheets) ==
    IF i > Len(symbols) THEN Dct(datasheets)
    ELSE LET symbol_name == SymbolName(symbols[i]) IN
         IF IsExc(symbol_name) THEN symbol_name
         ELSE LET properties == Get(symbols[i], "property")
                  r == datasheets_of_properties(Iter(properties), 1, symbol_name, datasheets)
              IN IF IsExc(r) THEN r ELSE datasheets_of_symbols(symbols, i + 1, r.v)

extract_datasheets(parsed_data) ==
    IF ~IsDict(parsed_data) THEN Exc("AssertionError")
    ELSE IF Get(parsed_data, "tag") # Str("kicad_symbol_lib") THEN Exc("AssertionError")
    ELSE LET symbols == WrapIfDict(GetOr(parsed_data, "symbol", Lst(<<>>)))
         IN datasheets_of_symbols(Iter(symbols), 1, EmptyDict)

(***************************************************************************)
(* extract_symbols_to_pins_map                                             *)
(***************************************************************************)
Pin(name, number, type, rotation, x, y) ==
    [k |-> "Pin",
     v |-> [name |-> name, number |-> number, type |-> type, rotation |-> rotation, x |-> x, y |-> y]]

\* Lines 182-188: the Pin of one folded pin node, or the exception of the
\* first statement that fails.
PinOf(pin) ==
    LET pin_type == Index(Item(pin, "positional"), 0)
        at == Unpack(Item(pin, "at"), 3)
        x == float(Index(at, 0))
        y == float(Index(at, 1))
        rotation == int(Index(at, 2))
        pin_name == Index(Item(Item(pin, "name"), "positional"), 0)
        pin_number == Index(Item(Item(pin, "number"), "positional"), 0)
        steps == <<pin_type, at, x, y, rotation, pin_name, pin_number>>
    IN IF AnyExc(steps) THEN FirstExc(steps)
       ELSE Pin(pin_name, pin_number, pin_type, rotation, x, y)

\* The loop over the pins of one sub-symbol (lines 181-189).
RECURSIVE pins_of_pins(_, _, _)
pins_of_pins(pins, n, acc) ==
    IF n > Len(pins) THEN Lst(acc)
    ELSE LET pin_obj == PinOf(pins[n]) IN
         IF IsExc(pin_obj) THEN pin_obj ELSE pins_of_pins(pins, n + 1, Append(acc, pin_obj))

\* The loop over the sub-symbols of one symbol (lines 175-189).
RECURSIVE pins_of_subsymbols(_, _, _)
pins_of_subsymbols(subsymbols, j, acc) ==
    IF j > Len(subsymbols) THEN Lst(acc)
    ELSE LET subsymbol == subsymbols[j] IN
         CASE IsNone(subsymbol) -> Exc("TypeError")
           [] IsDict(subsymbol) ->
                IF "pin" \in DOMAIN subsymbol.v
                THEN LET pins == WrapIfNotList(subsymbol.v["pin"])
                         r == pins_of_pins(pins.v, 1, acc)
                     IN IF IsExc(r) THEN r ELSE pins_of_subsymbols(subsymbols, j + 1, r.v)
                ELSE pins_of_subsymbols(subsymbols, j + 1, acc)

\* list.sort(key=...) and sorted(key=...): a stable insertion sort of
\* <<key, item>> pairs, ascending by key. A key is a sequence of integers,
\* compared like Python compares strings (and, with one element, integers).
RECURSIVE SeqLess(_, _)
SeqLess(a, b) ==
    IF b = <<>> THEN FALSE
    ELSE IF a = <<>> THEN TRUE
    ELSE IF a[1] # b[1] THEN a[1] < b[1]
    ELSE SeqLess(Tail(a), Tail(b))

RECURSIVE InsertSorted(_, _)
InsertSorted(sorted, x) ==
    IF sorted = <<>> THEN <<x>>
    ELSE IF SeqLess(x[1], sorted[Len(sorted)][1])
         THEN Append(InsertSorted(SubSeq(sorted, 1, Len(sorted) - 1), x), sorted[Len(sorted)])
         ELSE Append(sorted, x)

RECURSIVE StableSort(_)
StableSort(pairs) ==
    IF pairs = <<>> THEN <<>>
    ELSE InsertSorted(StableSort(SubSeq(pairs, 1, Len(pairs) - 1)), pairs[Len(pairs)])

SortedItems(pairs) == LET r == StableSort(pairs) IN [n \in 1..Len(r) |-> r[n][2]]

\* The order of Python strings of digits (by code point), for the atoms of
\* IntTable: "10" < "2".
DigitsRank ==
    ("0" :> 0) @@ ("1" :> 1) @@ ("10" :> 2) @@ ("2" :> 3) @@ ("3" :> 4) @@ ("9" :> 5) @@ ("90" :> 6)

\* Line 192: current_symbol_pins.sort(key=lambda x: int(x.number))
SortPinsByString(pins) ==
    Lst(SortedItems([n \in 1..Len(pins) |-> <<<<DigitsRank[pins[n].v.number.v]>>, pins[n]>>]))

SortPins(pins) ==
    LET keys == [n \in 1..Len(pins) |-> int(pins[n].v.number)] IN
    IF AnyExc(keys) THEN FirstExc(keys)
    ELSE Lst(SortedItems([n \in 1..Len(pins) |-> <<<<keys[n].v>>, pins[n]>>]))

\* extends = symbol.get("extends") (lines 163 and 255): the base symbol a
\* derived symbol names, None for a symbol that stands on its own.
extends_absent(symbol) == NoneV
extends(symbol) == Get(symbol, "extends")

\* The loop over the symbols (lines 157-194).
RECURSIVE pins_of_symbols(_, _, _)
pins_of_symbols(symbols, i, symbol_to_pins_map) ==
    IF i > Len(symbols) THEN Dct(symbol_to_pins_map)
    ELSE LET symbol_name == SymbolName(symbols[i]) IN
         IF IsExc(symbol_name) THEN symbol_name
         ELSE IF ~IsNone(extends(symbols[i]))
              THEN pins_of_symbols(symbols, i + 1, symbol_to_pins_map)
              ELSE LET subsymbols == WrapIfNotList(Get(symbols[i], "symbol"))
                       current_symbol_pins == pins_of_subsymbols(subsymbols.v, 1, <<>>)
                       sorted == IF IsExc(current_symbol_pins) THEN current_symbol_pins
                                 ELSE SortPins(current_symbol_pins.v)
                   IN IF IsExc(sorted) THEN sorted
                      ELSE pins_of_symbols(symbols, i + 1, (symbol_name.v :> sorted) @@ symbol_to_pins_map)

extract_symbols_to_pins_map(t) ==
    LET symbols == WrapIfDict(GetOr(t, "symbol", Lst(<<>>)))
    IN pins_of_symbols(Iter(symbols), 1, EmptyDict)

(***************************************************************************)
(* The graphical extractors. extract_graphical_polylines pops the leading  *)
(* coordinates off the list it reads, which is the list held by the folded *)
(* tree: each operator below returns [ret |-> what the Python function     *)
(* returns (or the exception), node |-> its argument after the call].      *)
(***************************************************************************)
GraphicalText(text, x, y, rotation) ==
    [k |-> "GraphicalText", v |-> [text |-> text, x |-> x, y |-> y, rotation |-> rotation]]
GraphicalRectangle(start, end, fill) ==
    [k |-> "GraphicalRectangle", v |-> [start |-> start, end |-> end, fill |-> fill]]
GraphicalPolyline(points) ==
    [k |-> "GraphicalPolyline", v |-> [points |-> points]]

\* Lines 202-205: the GraphicalText of one folded text node, or the exception
\* of the first statement that fails.
TextOf(text) ==
    LET text_content == Index(Item(text, "positional"), 0)
        at == Unpack(Item(text, "at"), 3)
        x == float(Index(at, 0))
        y == float(Index(at, 1))
        rotation == int(Index(at, 2))
        steps == <<text_content, at, x, y, rotation>>
    IN IF AnyExc(steps) THEN FirstExc(steps)
       ELSE GraphicalText(text_content, x, y, rotation)

\* rectangle.get("fill", {}).get("type")
FillType(rectangle) ==
    LET fill == GetOr(rectangle, "fill", Dct(EmptyDict)) IN
    IF IsDict(fill) THEN Get(fill, "type") ELSE Exc("AttributeError")

\* Lines 213-218: the GraphicalRectangle of one folded rectangle node.
RectangleOf(rectangle) ==
    LET start == Unpack(Item(rectangle, "start"), 2)
        end == Unpack(Item(rectangle, "end"), 2)
        start_x == float(Index(start, 0))
        start_y == float(Index(start, 1))
        end_x == float(Index(end, 0))
        end_y == float(Index(end, 1))
        fill == FillType(rectangle)
        steps == <<start, end, start_x, start_y, end_x, end_y, fill>>
    IN IF AnyExc(steps) THEN FirstExc(steps)
       ELSE GraphicalRectangle(<<start_x, start_y>>, <<end_x, end_y>>, fill)

\* for x in xs: acc.append(Of(x)), for texts and rectangles.
RECURSIVE texts_loop(_, _, _)
texts_loop(texts, n, acc) ==
    IF n > Len(texts) THEN Lst(acc)
    ELSE LET g == TextOf(texts[n]) IN
         IF IsExc(g) THEN g ELSE texts_loop(texts, n + 1, Append(acc, g))

RECURSIVE rectangles_loop(_, _, _)
rectangles_loop(rectangles, n, acc) ==
    IF n > Len(rectangles) THEN Lst(acc)
    ELSE LET g == RectangleOf(rectangles[n]) IN
         IF IsExc(g) THEN g ELSE rectangles_loop(rectangles, n + 1, Append(acc, g))

extract_graphical_texts(texts) == texts_loop(WrapIfNotList(texts).v, 1, <<>>)
extract_graphical_rectangles(rectangles) == rectangles_loop(WrapIfNotList(rectangles).v, 1, <<>>)

\* Lines 234-236: the loop over the coordinate pairs left in points.
RECURSIVE pairs_loop(_, _, _)
pairs_loop(points, n, acc) ==
    IF n > Len(points) THEN Lst(acc)
    ELSE LET x == float(Index(points[n], 0))
             y == float(Index(points[n], 1))
         IN IF IsExc(x) THEN x
            ELSE IF IsExc(y) THEN y
            ELSE pairs_loop(points, n + 1, Append(acc, <<x, y>>))

\* polyline with polyline["pts"]["xy"] replaced by xy.
WithXY(polyline, xy) ==
    Dct([polyline.v EXCEPT !["pts"] = Dct([@.v EXCEPT !["xy"] = Lst(xy)])])

\* Lines 233-237: the GraphicalPolyline of the points collected, and the
\* polyline node as the call leaves it.
PolylineResult(current_polyline_points, node) ==
    [ret |-> IF IsExc(current_polyline_points) THEN current_polyline_points
             ELSE GraphicalPolyline(current_polyline_points.v),
     node |-> node]

\* Line 232: float(points.pop(0)), float(points.pop(0)). pop removes the
\* element from the list in the tree, before float reads it.
PolylinePoppedOnly(polyline, start_x, start_y, popped1) ==
    PolylineResult(pairs_loop(Tail(popped1), 1, <<>>), WithXY(polyline, Tail(popped1)))
PolylinePopped(polyline, start_x, start_y, popped1) ==
    IF IsExc(start_x) THEN [ret |-> start_x, node |-> WithXY(polyline, popped1)]
    ELSE IF IsExc(start_y) THEN [ret |-> start_y, node |-> WithXY(polyline, Tail(popped1))]
    ELSE PolylineResult(pairs_loop(Tail(popped1), 1, <<<<start_x, start_y>>>>),
                        WithXY(polyline, Tail(popped1)))

\* Lines 227-237 for the points of one polyline: ret is None when there are
\* no points.
PolylinePoints(polyline, points) ==
    IF Len(points.v) = 0 THEN [ret |-> NoneV, node |-> polyline]
    ELSE IF Len(points.v) >= 2 /\ IsStr(points.v[1]) /\ IsStr(points.v[2])
         THEN PolylinePopped(polyline, float(points.v[1]), float(points.v[2]), Tail(points.v))
         ELSE PolylineResult(pairs_loop(points.v, 1, <<>>), polyline)

\* Line 226: points = polyline.get("pts", []).get("xy", [])
PolylineOf(polyline) ==
    IF ~IsDict(polyline) \/ ~IsDict(GetOr(polyline, "pts", Lst(<<>>)))
    THEN [ret |-> Exc("AttributeError"), node |-> polyline]
    ELSE PolylinePoints(polyline, GetOr(polyline.v["pts"], "xy", Lst(<<>>)))

\* The loop of extract_graphical_polylines: polylines are the nodes so far
\* visited, after the visit, followed by those not visited; r is the result
\* for polylines[n].
RECURSIVE polylines_loop(_, _, _)
polylines_step(polylines, n, acc, r) ==
    IF IsExc(r.ret) THEN [ret |-> r.ret, node |-> [polylines EXCEPT ![n] = r.node]]
    ELSE polylines_loop([polylines EXCEPT ![n] = r.node], n + 1,
                        IF IsNone(r.ret) THEN acc ELSE Append(acc, r.ret))

polylines_loop(polylines, n, acc) ==
    IF n > Len(polylines) THEN [ret |-> Lst(acc), node |-> polylines]
    ELSE polylines_step(polylines, n, acc, PolylineOf(polylines[n]))

\* The field keeps its shape, a list or a single node.
Reshape(field, r) == [ret |-> r.ret, node |-> IF IsList(field) THEN Lst(r.node) ELSE r.node[1]]

extract_graphical_polylines(polylines) ==
    Reshape(polylines, polylines_loop(WrapIfNotList(polylines).v, 1, <<>>))

(***************************************************************************)
(* str(x) of a graphical element, the sort key of line 281, as the         *)
(* sequence of the code points of its characters.                          *)
(***************************************************************************)
Ord ==
    (" " :> 32) @@ ("'" :> 39) @@ ("(" :> 40) @@ (")" :> 41) @@ ("," :> 44) @@ ("-" :> 45)
    @@ ("." :> 46) @@ ("=" :> 61) @@ ("G" :> 71) @@ ("N" :> 78) @@ ("P" :> 80) @@ ("R" :> 82)
    @@ ("T" :> 84) @@ ("U" :> 85) @@ ("a" :> 97) @@ ("c" :> 99) @@ ("d" :> 100) @@ ("e" :> 101)
    @@ ("f" :> 102) @@ ("g" :> 103) @@ ("h" :> 104) @@ ("i" :> 105) @@ ("l" :> 108)
    @@ ("n" :> 110) @@ ("o" :> 111) @@ ("p" :> 112) @@ ("r" :> 114) @@ ("s" :> 115)
    @@ ("t" :> 116) @@ ("x" :> 120) @@ ("y" :> 121)

Codes(chars) == [n \in 1..Len(chars) |-> Ord[chars[n]]]

\* The characters of the strings that occur as text content and fill type.
TextChars ==
    ("R" :> <<"R">>) @@ ("U" :> <<"U">>) @@ ("none" :> <<"n", "o", "n", "e">>)

RECURSIVE NatRepr(_)
NatRepr(n) == IF n < 10 THEN <<48 + n>> ELSE NatRepr(n \div 10) \o <<48 + (n % 10)>>

IntRepr(n) == IF n < 0 THEN <<45>> \o NatRepr(-n) ELSE NatRepr(n)

\* repr of a float given in hundredths: 254 is 2.54, 250 is 2.5, 200 is 2.0.
FloatRepr(h) ==
    LET a == IF h < 0 THEN -h ELSE h
        r == a % 100
        frac == IF r % 10 = 0 THEN <<48 + (r \div 10)>> ELSE <<48 + (r \div 10), 48 + (r % 10)>>
    IN (IF h < 0 THEN <<45>> ELSE <<>>) \o NatRepr(a \div 100) \o <<46>> \o frac

\* repr of a string without quotes in it, of None, of a pair of floats.
StrRepr(x) == IF IsNone(x) THEN Codes(<<"N", "o", "n", "e">>) ELSE <<39>> \o Codes(TextChars[x.v]) \o <<39>>
PairRepr(p) == <<40>> \o FloatRepr(p[1].v) \o <<44, 32>> \o FloatRepr(p[2].v) \o <<41>>

\* repr of a tuple of pairs: ((0.0, 0.0),) with one pair, () with none.
RECURSIVE PairsJoined(_)
PairsJoined(ps) ==
    IF ps = <<>> THEN <<>>
    ELSE IF Len(ps) = 1 THEN PairRepr(ps[1])
    ELSE PairRepr(ps[1]) \o <<44, 32>> \o PairsJoined(Tail(ps))
TupleRepr(ps) == <<40>> \o PairsJoined(ps) \o (IF Len(ps) = 1 THEN <<44>> ELSE <<>>) \o <<41>>

ElementStr(g) ==
    CASE g.k = "GraphicalText" ->
           Codes(<<"G","r","a","p","h","i","c","a","l","T","e","x","t","(","t","e","x","t","=">>)
           \o StrRepr(g.v.text)
           \o Codes(<<",", " ", "x", "=">>) \o FloatRepr(g.v.x.v)
           \o Codes(<<",", " ", "y", "=">>) \o FloatRepr(g.v.y.v)
           \o Codes(<<",", " ", "r","o","t","a","t","i","o","n","=">>) \o IntRepr(g.v.rotation.v)
           \o <<41>>
      [] g.k = "GraphicalRectangle" ->
           Codes(<<"G","r","a","p","h","i","c","a","l","R","e","c","t","a","n","g","l","e","(","s","t","a","r","t","=">>)
           \o PairRepr(g.v.start)
           \o Codes(<<",", " ", "e","n","d","=">>) \o PairRepr(g.v.end)
           \o Codes(<<",", " ", "f","i","l","l","=">>) \o StrRepr(g.v.fill)
           \o <<41>>
      [] g.k = "GraphicalPolyline" ->
           Codes(<<"G","r","a","p","h","i","c","a","l","P","o","l","y","l","i","n","e","(","p","o","i","n","t","s","=">>)
           \o TupleRepr(g.v.points)
           \o <<41>>

\* Line 281: sorted(current_symbol_graphical, key=lambda x: str(x))
SortGraphical(elements) ==
    SortedItems([n \in 1..Len(elements) |-> <<ElementStr(elements[n]), elements[n]>>])

(***************************************************************************)
(* extract_symbols_to_graphical_elements_map                               *)
(***************************************************************************)
\* Lines 267-283 for the sub-symbols of one symbol, from sub-symbol j on:
\* ret is the sorted list of the symbol's elements (None when the loop body
\* never ran, and the symbol gets no entry), node the sub-symbols after.
RECURSIVE graphical_of_subsymbols(_, _, _, _)
\* subsymbols with polyline p.node in sub-symbol j
WithPolylines(subsymbols, j, p) ==
    IF "polyline" \in DOMAIN subsymbols[j].v
    THEN [subsymbols EXCEPT ![j] = Dct([@.v EXCEPT !["polyline"] = p.node])]
    ELSE subsymbols

graphical_of_subsymbol(subsymbols, j, acc, texts, rectangles, p) ==
    IF IsExc(texts) THEN [ret |-> texts, node |-> subsymbols]
    ELSE IF IsExc(rectangles) THEN [ret |-> rectangles, node |-> subsymbols]
    ELSE IF IsExc(p.ret) THEN [ret |-> p.ret, node |-> WithPolylines(subsymbols, j, p)]
    ELSE graphical_of_subsymbols(WithPolylines(subsymbols, j, p), j + 1,
                                 SortGraphical(acc \o texts.v \o rectangles.v \o p.ret.v), TRUE)

graphical_of_subsymbols(subsymbols, j, acc, ran) ==
    IF j > Len(subsymbols) THEN [ret |-> IF ran THEN Lst(acc) ELSE NoneV, node |-> subsymbols]
    ELSE IF ~IsDict(subsymbols[j]) THEN [ret |-> Exc("AttributeError"), node |-> subsymbols]
    ELSE graphical_of_subsymbol(subsymbols, j, acc,
             extract_graphical_texts(GetOr(subsymbols[j], "text", Lst(<<>>))),
             extract_graphical_rectangles(GetOr(subsymbols[j], "rectangle", Lst(<<>>))),
             extract_graphical_polylines(GetOr(subsymbols[j], "polyline", Lst(<<>>))))

\* symbol with its sub-symbols replaced by those in subsymbols: the field
\* keeps its shape, a single node or a list.
WithSubsymbols(symbol, subsymbols) ==
    IF "symbol" \notin DOMAIN symbol.v THEN symbol
    ELSE Dct([symbol.v EXCEPT !["symbol"] = IF IsList(@) THEN Lst(subsymbols) ELSE subsymbols[1]])

\* The loop over the symbols (lines 249-283); r is the result for the
\* sub-symbols of symbols[i].
RECURSIVE graphical_of_symbols(_, _, _)
graphical_of_symbol(symbols, i, symbol_to_graphical_map, symbol_name, r) ==
    IF IsExc(r.ret) THEN [ret |-> r.ret, node |-> [symbols EXCEPT ![i] = WithSubsymbols(@, r.node)]]
    ELSE graphical_of_symbols([symbols EXCEPT ![i] = WithSubsymbols(@, r.node)], i + 1,
                              IF IsNone(r.ret) THEN symbol_to_graphical_map
                              ELSE (symbol_name.v :> r.ret) @@ symbol_to_graphical_map)

graphical_of_named(symbols, i, symbol_to_graphical_map, symbol_name) ==
    IF IsExc(symbol_name) THEN [ret |-> symbol_name, node |-> symbols]
    ELSE IF ~IsNone(extends(symbols[i]))
         THEN graphical_of_symbols(symbols, i + 1, symbol_to_graphical_map)
         ELSE graphical_of_symbol(symbols, i, symbol_to_graphical_map, symbol_name,
                  graphical_of_subsymbols(WrapIfNotList(Get(symbols[i], "symbol")).v, 1, <<>>, FALSE))

graphical_of_symbols(symbols, i, symbol_to_graphical_map) ==
    IF i > Len(symbols) THEN [ret |-> Dct(symbol_to_graphical_map), node |-> symbols]
    ELSE graphical_of_named(symbols, i, symbol_to_graphical_map, SymbolName(symbols[i]))

\* tree with its symbols replaced by those of r.
WithSymbols(t, r) ==
    [ret |-> r.ret,
     node |-> IF "symbol" \notin DOMAIN t.v THEN t
              ELSE Dct([t.v EXCEPT !["symbol"] = IF IsList(@) THEN Lst(r.node) ELSE r.node[1]])]

extract_symbols_to_graphical_elements_map(t) ==
    WithSymbols(t, graphical_of_symbols(Iter(WrapIfDict(GetOr(t, "symbol", Lst(<<>>)))), 1, EmptyDict))

(***************************************************************************)
(* Inputs of the extractors: symbol libraries as KiCad writes them, of     *)
(* bounded size, each symbol drawn from a fixed list of shapes.            *)
(***************************************************************************)
MaxSymbols == 2
MaxCalls == 2

At(x, y, r) == Lst(<<Str("at"), Str(x), Str(y), Str(r)>>)
Effects == Lst(<<Str("effects"), Lst(<<Str("font"), L3("size", "1.27", "1.27")>>)>>)
Stroke == Lst(<<Str("stroke"), L2("width", "0")>>)
Fill == Lst(<<Str("fill"), L2("type", "none")>>)

\* (property "Reference" "R" (at 0 0 0) (effects ...)), and (property "K" "V")
RichProperty(key, value) == Lst(<<Str("property"), Str(key), Str(value), At("0", "0", "0"), Effects>>)
BareProperty(key, value) == L3("property", key, value)

\* (pin passive line (at x 0 0) (length 2.54) (name "~" (effects ...)) (number "n" (effects ...)))
PinNode(number, x) ==
    Lst(<<Str("pin"), Str("passive"), Str("line"), At(x, "0", "0"), L2("length", "2.54"),
          Lst(<<Str("name"), Str("~"), Effects>>), Lst(<<Str("number"), Str(number), Effects>>)>>)

TextNode(x) == Lst(<<Str("text"), Str("R"), At(x, "0", "90"), Effects>>)
RectangleNode == Lst(<<Str("rectangle"), L3("start", "-2.54", "1.27"), L3("end", "2.54", "-1.27"), Stroke, Fill>>)
RectangleNoFill == Lst(<<Str("rectangle"), L3("start", "-1.27", "1.27"), L3("end", "1.27", "-1.27"), Stroke>>)
\* (polyline (pts (xy x1 y1) (xy x2 y2) ...) (stroke ...) (fill ...)), points a sequence of <<x, y>>
PolylineNode(points) ==
    Lst(<<Str("polyline"),
          Lst(<<Str("pts")>> \o [n \in 1..Len(points) |-> L3("xy", points[n][1], points[n][2])]),
          Stroke, Fill>>)

SubSymbol(name, children) == Lst(<<Str("symbol"), Str(name)>> \o children)
Symbol(name, children) == Lst(<<Str("symbol"), Str(name)>> \o children)

Url == "http://x/y.pdf"

\* The shapes of a symbol called name.
SymbolShapes(name) ==
    << \* the example of the specification: one property without children
       Symbol(name, <<BareProperty("Datasheet", Url)>>),
       \* a resistor: two units, graphics in the first, three pins in the second
       Symbol(name, <<RichProperty("Reference", "R"), RichProperty("Datasheet", Url),
                      SubSymbol("U_0_1", <<RectangleNode, PolylineNode(<<<<"0", "0">>, <<"1", "2.54">>>>)>>),
                      SubSymbol("U_1_1", <<PinNode("2", "2.54"), PinNode("10", "0"), PinNode("1", "-2.54")>>)>>),
       \* one of everything: one property, one unit, one pin, text, rectangle, polyline
       Symbol(name, <<RichProperty("Datasheet", Url),
                      SubSymbol("U_1_1", <<TextNode("0"), RectangleNoFill, PolylineNode(<<<<"1", "1">>>>),
                                           PinNode("1", "0")>>)>>),
       \* a derived symbol, with a unit of its own
       Symbol(name, <<L2("extends", "R_0603"), RichProperty("Reference", "R"), RichProperty("Datasheet", Url),
                      SubSymbol("U_1_1", <<PinNode("3", "0"), PolylineNode(<<<<"0", "0">>, <<"1", "1">>>>)>>)>>),
       \* no datasheet: texts and polylines in the first unit, pins in two units
       Symbol(name, <<RichProperty("Reference", "R"), RichProperty("Value", "R"),
                      SubSymbol("U_0_1", <<TextNode("1"), TextNode("0"),
                                           PolylineNode(<<<<"0", "0">>, <<"1", "1">>, <<"2", "0">>>>),
                                           PolylineNode(<<<<"10", "0">>>>)>>),
                      SubSymbol("U_1_1", <<PinNode("10", "1.27"), PinNode("9", "0")>>),
                      SubSymbol("U_2_1", <<PinNode("1", "0")>>)>>),
       \* a symbol without units
       Symbol(name, <<RichProperty("Reference", "R"), RichProperty("Datasheet", Url)>>) >>

NShapes == Len(SymbolShapes("R_0603"))
SymbolNames == <<"R_0603", "C_0603", "L_0603", "D_0603">>

Library(symbols) ==
    Lst(<<Str("kicad_symbol_lib"), L2("version", "20220914"), L2("generator", "kicad_symbol_editor")>>
        \o symbols)

Libraries ==
    UNION { { Library([i \in 1..n |-> SymbolShapes(SymbolNames[i])[f[i]]]) : f \in [1..n -> 1..NShapes] }
            : n \in 0..MaxSymbols }

(***************************************************************************)
(* The extractors as operations on the folded tree. A call is recorded     *)
(* with what it returned.                                                  *)
(***************************************************************************)
Call(fn, ret) == [fn |-> fn, ret |-> ret]

ExtractDatasheets ==
    /\ IsDict(tree)
    /\ Len(calls) < MaxCalls
    /\ calls' = Append(calls, Call("extract_datasheets", extract_datasheets(tree)))
    /\ UNCHANGED <<sexpr, tree, tbVars, fetchVars, diffVars, exportVars>>

ExtractPins ==
    /\ IsDict(tree)
    /\ Len(calls) < MaxCalls
    /\ calls' = Append(calls, Call("extract_symbols_to_pins_map", extract_symbols_to_pins_map(tree)))
    /\ UNCHANGED <<sexpr, tree, tbVars, fetchVars, diffVars, exportVars>>

ExtractGraphical ==
    /\ IsDict(tree)
    /\ Len(calls) < MaxCalls
    /\ LET r == extract_symbols_to_graphical_elements_map(tree) IN
       /\ calls' = Append(calls, Call("extract_symbols_to_graphical_elements_map", r.ret))
       /\ tree' = r.node
    /\ UNCHANGED <<sexpr, tbVars, fetchVars, diffVars, exportVars>>

Init ==
    /\ sexpr \in Libraries
    /\ tree = NoneV
    /\ calls = <<>>
    /\ TitleBlockIdle
    /\ FetchIdle
    /\ DiffIdle
    /\ ExportIdle

Next ==
    \/ ParseSexpr
    \/ ExtractDatasheets
    \/ ExtractPins
    \/ ExtractGraphical

Spec == Init /\ [][Next]_vars

(***************************************************************************)
(* What the extractors are expected to return, read off the unfolded list  *)
(* structure of the library (not off the folded tree).                     *)
(***************************************************************************)
\* The child lists of node whose first element is the atom tag, in source order.
RawChildren(node, tag) ==
    SelectSeq(node.v, LAMBDA c : IsList(c) /\ Len(c.v) > 0 /\ c.v[1] = Str(tag))
\* The atoms of node after its tag, in source order.
RawAtoms(node) == SelectSeq(Tail(node.v), LAMBDA c : IsStr(c))
RawName(node) == RawAtoms(node)[1].v
RawExtends(symbol) == RawChildren(symbol, "extends") # <<>>

IsDatasheetProperty(property) ==
    \E n \in 1..Len(RawAtoms(property)) : RawAtoms(property)[n] = Str("Datasheet")
DatasheetProperties(symbol) == SelectSeq(RawChildren(symbol, "property"), IsDatasheetProperty)
ExpectedDatasheets(root) ==
    LET symbols == RawChildren(root, "symbol")
        with == { n \in 1..Len(symbols) : DatasheetProperties(symbols[n]) # <<>> }
    IN [name \in { RawName(symbols[n]) : n \in with } |->
           LET n == CHOOSE n \in with : RawName(symbols[n]) = name
               properties == DatasheetProperties(symbols[n])
           IN RawAtoms(properties[Len(properties)])[2]]

\* C4: every call of extract_datasheets on the folded library returns the
\* mapping that has, for every symbol with a property whose positional data
\* contains "Datasheet", the entry name -> second positional element of that
\* property, and no other key; for the library
\* (kicad_symbol_lib (symbol "R_0603" (property "Datasheet" "http://x/y.pdf")))
\* that is {"R_0603": "http://x/y.pdf"}.
C4_DatasheetOfEverySymbol ==
    \A n \in 1..Len(calls) :
        calls[n].fn = "extract_datasheets" => calls[n].ret = Dct(ExpectedDatasheets(sexpr))

\* The folded tree with every singleton at a field of ambiguous cardinality
\* replaced by the one-element sequence that holds it.
WrapFields(d, keys) ==
    Dct([key \in DOMAIN d.v |-> IF key \in keys /\ IsDict(d.v[key]) THEN Lst(<<d.v[key]>>) ELSE d.v[key]])
OverItems(d, key, F(_)) ==
    IF key \in DOMAIN d.v /\ IsList(d.v[key])
    THEN Dct([d.v EXCEPT ![key] = Lst([n \in 1..Len(@.v) |-> IF IsDict(@.v[n]) THEN F(@.v[n]) ELSE @.v[n]])])
    ELSE d
UnitListForm(unit) == WrapFields(unit, {"pin", "text", "rectangle", "polyline"})
SymbolListForm(symbol) == OverItems(WrapFields(symbol, {"property", "symbol"}), "symbol", UnitListForm)
ListForm(t) == OverItems(WrapFields(t, {"symbol"}), "symbol", SymbolListForm)
HasSingleton(t) == ListForm(t) # t

Apply(fn, t) ==
    CASE fn = "extract_datasheets" -> extract_datasheets(t)
      [] fn = "extract_symbols_to_pins_map" -> extract_symbols_to_pins_map(t)
      [] fn = "extract_symbols_to_graphical_elements_map" -> extract_symbols_to_graphical_elements_map(t).ret

\* C5: an extractor called on a folded library in which a field of ambiguous
\* cardinality (symbol, property, nested symbol, pin, text, rectangle,
\* polyline) holds a single folded node returns what it returns when the
\* field holds the one-element sequence of that node, and so does not fail
\* where the sequence form does not.
C5_SingletonSameAsOneElementList ==
    (Len(calls) > 0 /\ HasSingleton(parse_sexpr(sexpr)))
        => calls[1].ret = Apply(calls[1].fn, ListForm(parse_sexpr(sexpr)))

\* C6: no extractor modifies the folded node it is given (the tree stays the
\* fold of the source), and two calls of the same extractor on the same
\* folded node return equal results.
C6_ExtractorsArePure ==
    /\ IsDict(tree) => tree = parse_sexpr(sexpr)
    /\ \A m, n \in 1..Len(calls) : calls[m].fn = calls[n].fn => calls[m].ret = calls[n].ret

\* The pins of a symbol in source order, unit after unit, as <<number, x>>.
RECURSIVE Concat(_)
Concat(seqs) == IF seqs = <<>> THEN <<>> ELSE Head(seqs) \o Concat(Tail(seqs))
RawPins(symbol) ==
    LET units == RawChildren(symbol, "symbol")
        pins == Concat([u \in 1..Len(units) |-> RawChildren(units[u], "pin")])
    IN [n \in 1..Len(pins) |->
           <<RawAtoms(RawChildren(pins[n], "number")[1])[1].v,
             FloatTable[RawAtoms(RawChildren(pins[n], "at")[1])[1].v]>>]
IsPermutationOf(a, b) ==
    /\ Len(a) = Len(b)
    /\ \E f \in [1..Len(a) -> 1..Len(a)] :
          /\ \A m, n \in 1..Len(a) : m # n => f[m] # f[n]
          /\ \A n \in 1..Len(a) : a[n] = b[f[n]]
PinKeys(pins) == [n \in 1..Len(pins.v) |-> <<pins.v[n].v.number.v, pins.v[n].v.x.v>>]
PinNumbers(pins) == [n \in 1..Len(pins.v) |-> pins.v[n].v.number.v]

\* C10: in every map extract_symbols_to_pins_map returns, the list of a
\* non-extending symbol whose pin numbers are decimal integers holds every pin
\* of every unit of the symbol exactly once, in ascending order of the pin
\* number read as an integer.
C10_PinsSortedByInteger ==
    \A c \in 1..Len(calls) :
        (calls[c].fn = "extract_symbols_to_pins_map" /\ IsDict(calls[c].ret)) =>
            LET symbols == RawChildren(sexpr, "symbol") IN
            \A s \in 1..Len(symbols) :
                (/\ ~RawExtends(symbols[s])
                 /\ \A n \in 1..Len(RawPins(symbols[s])) : RawPins(symbols[s])[n][1] \in DOMAIN IntTable) =>
                    /\ RawName(symbols[s]) \in DOMAIN calls[c].ret.v
                    /\ LET pins == calls[c].ret.v[RawName(symbols[s])] IN
                       /\ IsList(pins)
                       /\ IsPermutationOf(PinKeys(pins), RawPins(symbols[s]))
                       /\ \A m, n \in 1..Len(pins.v) :
                              m < n => IntTable[PinNumbers(pins)[m]] <= IntTable[PinNumbers(pins)[n]]

\* A returned map in which pins written in the order 2, 10, 1 come out as 1, 2, 10.
C10_Witness ==
    \E c \in 1..Len(calls) :
        /\ calls[c].fn = "extract_symbols_to_pins_map"
        /\ IsDict(calls[c].ret)
        /\ LET symbols == RawChildren(sexpr, "symbol") IN
           \E s \in 1..Len(symbols) :
               /\ [n \in 1..Len(RawPins(symbols[s])) |-> RawPins(symbols[s])[n][1]] = <<"2", "10", "1">>
               /\ PinNumbers(calls[c].ret.v[RawName(symbols[s])]) = <<"1", "2", "10">>

\* The library without its derived symbols.
WithoutExtending(root) ==
    Lst(SelectSeq(root.v, LAMBDA c : ~(IsList(c) /\ Len(c.v) > 0 /\ c.v[1] = Str("symbol") /\ RawExtends(c))))
IsSymbolMap(fn) ==
    fn \in {"extract_symbols_to_pins_map", "extract_symbols_to_graphical_elements_map"}
\* No call before call c has changed the folded tree.
TreeFreshAt(c) ==
    \A d \in 1..(c - 1) : calls[d].fn # "extract_symbols_to_graphical_elements_map"

\* C11: a symbol with an extends field is no key of the map returned by
\* extract_symbols_to_pins_map or extract_symbols_to_graphical_elements_map,
\* whatever its units hold, and when the library has other symbols the call
\* returns what it returns for the library without the derived symbols.
C11_ExtendsFiltered ==
    \A c \in 1..Len(calls) :
        IsSymbolMap(calls[c].fn) =>
            LET symbols == RawChildren(sexpr, "symbol") IN
            /\ IsDict(calls[c].ret) =>
                   \A s \in 1..Len(symbols) :
                       RawExtends(symbols[s]) => RawName(symbols[s]) \notin DOMAIN calls[c].ret.v
            /\ (TreeFreshAt(c) /\ \E s \in 1..Len(symbols) : ~RawExtends(symbols[s]))
                   => calls[c].ret = Apply(calls[c].fn, parse_sexpr(WithoutExtending(sexpr)))

\* Both maps were returned for a library that holds a derived symbol whose
\* own unit has a pin and a polyline, next to a symbol that is in both maps.
C11_Witness ==
    /\ Len(calls) = 2
    /\ calls[1].fn = "extract_symbols_to_pins_map" /\ IsDict(calls[1].ret)
    /\ calls[2].fn = "extract_symbols_to_graphical_elements_map" /\ IsDict(calls[2].ret)
    /\ LET symbols == RawChildren(sexpr, "symbol") IN
       /\ \E s \in 1..Len(symbols) :
              /\ RawExtends(symbols[s])
              /\ RawPins(symbols[s]) # <<>>
              /\ \E u \in 1..Len(RawChildren(symbols[s], "symbol")) :
                     RawChildren(RawChildren(symbols[s], "symbol")[u], "polyline") # <<>>
       /\ \E s \in 1..Len(symbols) :
              /\ ~RawExtends(symbols[s])
              /\ RawName(symbols[s]) \in DOMAIN calls[1].ret.v
              /\ RawName(symbols[s]) \in DOMAIN calls[2].ret.v

\* The coordinates of the xy children of a polyline's pts block, in source
\* order.
SourcePoints(polyline) ==
    LET xys == RawChildren(RawChildren(polyline, "pts")[1], "xy") IN
    [n \in 1..Len(xys) |-> <<float(RawAtoms(xys[n])[1]), float(RawAtoms(xys[n])[2])>>]
SourcePolylines(unit) ==
    LET polylines == RawChildren(unit, "polyline") IN
    [n \in 1..Len(polylines) |-> GraphicalPolyline(SourcePoints(polylines[n]))]
IsGraphicalPolyline(element) == element.k = "GraphicalPolyline"

\* C12: the first call of extract_graphical_polylines on the folded polyline
\* field of a unit returns, for each polyline with n >= 1 xy children, one
\* GraphicalPolyline whose points are the n source coordinates in source
\* order, and these are the polylines the graphical map lists for the
\* symbol of the unit.
C12_PolylinePointsInSourceOrder ==
    (Len(calls) > 0 /\ calls[1].fn = "extract_symbols_to_graphical_elements_map") =>
        LET symbols == RawChildren(sexpr, "symbol") IN
        \A s \in 1..Len(symbols) :
            LET units == RawChildren(symbols[s], "symbol")
                expected == Concat([u \in 1..Len(units) |-> SourcePolylines(units[u])])
            IN /\ \A u \in 1..Len(units) :
                      RawChildren(units[u], "polyline") # <<>> =>
                          extract_graphical_polylines(Get(to_dict(units[u]), "polyline")).ret
                              = Lst(SourcePolylines(units[u]))
               /\ (IsDict(calls[1].ret) /\ ~RawExtends(symbols[s]) /\ units # <<>>) =>
                      IsPermutationOf(SelectSeq(calls[1].ret.v[RawName(symbols[s])].v, IsGraphicalPolyline),
                                      expected)

\* The map was returned for a symbol with a polyline of three points and a
\* polyline of one point.
C12_Witness ==
    /\ Len(calls) > 0 /\ calls[1].fn = "extract_symbols_to_graphical_elements_map"
    /\ IsDict(calls[1].ret)
    /\ LET symbols == RawChildren(sexpr, "symbol") IN
       \E s \in 1..Len(symbols) :
           LET elements == calls[1].ret.v[RawName(symbols[s])].v IN
           /\ ~RawExtends(symbols[s])
           /\ \E e \in 1..Len(elements) :
                  IsGraphicalPolyline(elements[e]) /\ Len(elements[e].v.points) = 3
           /\ \E e \in 1..Len(elements) :
                  IsGraphicalPolyline(elements[e]) /\ Len(elements[e].v.points) = 1

(***************************************************************************)
(* TitleBlockParser (CIExport.py). Text is a sequence of one-character     *)
(* strings; a file holds bytes, which for the characters of the model are  *)
(* the characters themselves, and BadByte, a byte that is no UTF-8.         *)
(***************************************************************************)
BadByte == "\\xff"
Whitespace == {" ", "\t", "\n", "\r"}

\* str.strip(chars); str.strip() is StripChars(s, Whitespace)
RECURSIVE LStripChars(_, _)
LStripChars(s, chars) ==
    IF s # <<>> /\ s[1] \in chars THEN LStripChars(Tail(s), chars) ELSE s
RECURSIVE RStripChars(_, _)
RStripChars(s, chars) ==
    IF s # <<>> /\ s[Len(s)] \in chars THEN RStripChars(SubSeq(s, 1, Len(s) - 1), chars) ELSE s
StripChars(s, chars) == RStripChars(LStripChars(s, chars), chars)
Strip(s) == StripChars(s, Whitespace)

\* sub in s
Contains(s, sub) ==
    \E i \in 1..(Len(s) - Len(sub) + 1) : SubSeq(s, i, i + Len(sub) - 1) = sub

\* str.split(): the maximal runs of characters that are not whitespace.
\* word is the run being read, parts the runs read.
RECURSIVE split_loop(_, _, _, _)
split_loop(s, i, word, parts) ==
    IF i > Len(s) THEN (IF word = <<>> THEN parts ELSE Append(parts, word))
    ELSE IF s[i] \in Whitespace
         THEN split_loop(s, i + 1, <<>>, IF word = <<>> THEN parts ELSE Append(parts, word))
         ELSE split_loop(s, i + 1, Append(word, s[i]), parts)
Split(s) == split_loop(s, 1, <<>>, <<>>)

\* ' '.join(parts)
RECURSIVE JoinSpace(_)
JoinSpace(parts) ==
    IF parts = <<>> THEN <<>>
    ELSE IF Len(parts) = 1 THEN parts[1]
    ELSE parts[1] \o <<" ">> \o JoinSpace(Tail(parts))

\* The elements of a set of numbers in ascending order.
Sorted(S) == [n \in 1..Cardinality(S) |-> CHOOSE i \in S : Cardinality({ j \in S : j <= i }) = n]

\* text cut after each of the positions in ends (ascending): the pieces, the
\* last one being what follows the last position, if anything does.
CutAfter(text, ends) ==
    [n \in 1..(Len(ends) + (IF Len(text) > 0 /\ (ends = <<>> \/ ends[Len(ends)] < Len(text)) THEN 1 ELSE 0)) |->
        SubSeq(text, IF n = 1 THEN 1 ELSE ends[n - 1] + 1, IF n <= Len(ends) THEN ends[n] ELSE Len(text))]

\* open(name, encoding='utf-8') reads with universal newlines: a line ends
\* with "\n", "\r\n" or a lone "\r", and is handed out ending with "\n".
UniversalLineEnds(bytes) ==
    { i \in 1..Len(bytes) : \/ bytes[i] = "\n"
                            \/ bytes[i] = "\r" /\ (i = Len(bytes) \/ bytes[i + 1] # "\n") }
TranslateNewline(piece) ==
    IF Len(piece) >= 2 /\ piece[Len(piece) - 1] = "\r" /\ piece[Len(piece)] = "\n"
    THEN Append(SubSeq(piece, 1, Len(piece) - 2), "\n")
    ELSE IF piece[Len(piece)] = "\r" THEN Append(SubSeq(piece, 1, Len(piece) - 1), "\n")
    ELSE piece
\* for line in file: each line with its "\n", the last one maybe without.
FileLines(bytes) ==
    LET pieces == CutAfter(bytes, Sorted(UniversalLineEnds(bytes)))
    IN [n \in 1..Len(pieces) |-> TranslateNewline(pieces[n])]

\* The lines read from a file of the given bytes, or the decoding error.
\* A file of the model is read in one chunk: the error comes before any line.
ReadLines(bytes) ==
    IF \E i \in 1..Len(bytes) : bytes[i] = BadByte THEN Exc("UnicodeDecodeError")
    ELSE Lst(FileLines(bytes))

\* outfile.write(line) on a file opened with 'w': "\n" goes out as
\* os.linesep. A line read from a file has its only "\n" at its end.
WriteText(line, sep) ==
    IF line # <<>> /\ line[Len(line)] = "\n" THEN SubSeq(line, 1, Len(line) - 1) \o sep ELSE line

(***************************************************************************)
(* A title-block mapping is a Python dict with its insertion order: a      *)
(* sequence of <<key, value>> with distinct keys.                          *)
(***************************************************************************)
OrderedDict(items) == [k |-> "dict", v |-> items]

\* d[key] = value: a key already there keeps its place.
DictSet(items, key, value) ==
    IF \E i \in 1..Len(items) : items[i][1] = key
    THEN [i \in 1..Len(items) |-> IF items[i][1] = key THEN <<key, value>> ELSE items[i]]
    ELSE Append(items, <<key, value>>)

\* d.update(other)
RECURSIVE DictUpdate(_, _)
DictSetDefaults(items, other) ==
    items \o SelectSeq(other, LAMBDA o : \A i \in 1..Len(items) : items[i][1] # o[1])
DictUpdate(items, other) ==
    IF other = <<>> THEN items
    ELSE DictUpdate(DictSet(items, other[1][1], other[1][2]), Tail(other))

TitleBlockStart == <<"(", "t", "i", "t", "l", "e", "_", "b", "l", "o", "c", "k">>
UuidMarker == <<"(", "u", "u", "i", "d">>

\* Lines 235-239: the field of one line inside the title block.
FieldOfParts(data, parts) ==
    IF Len(parts) >= 2
    THEN DictSet(data, Tail(parts[1]), StripChars(JoinSpace(Tail(parts)), {"(", ")", "\""}))
    ELSE data

\* Line 247: return title_block_data if found_title_block else None
parse_return_if_any(found_title_block, data) ==
    IF data # <<>> THEN OrderedDict(data) ELSE NoneV
parse_return(found_title_block, data) ==
    IF found_title_block THEN OrderedDict(data) ELSE NoneV

\* Lines 225-245: the loop of parse over the lines of the file.
RECURSIVE parse_loop(_, _, _, _, _, _)
parse_line(lines, n, in_title_block, found_title_block, data, without, stripped_line) ==
    IF Contains(stripped_line, TitleBlockStart)
    THEN parse_loop(lines, n + 1, TRUE, TRUE, data, without)
    ELSE IF in_title_block
         THEN parse_loop(lines, n + 1, stripped_line # <<")">>, found_title_block,
                         FieldOfParts(data, Split(stripped_line)), without)
         ELSE parse_loop(lines, n + 1, FALSE, found_title_block, data, Append(without, lines[n]))

parse_loop(lines, n, in_title_block, found_title_block, data, without) ==
    IF n > Len(lines)
    THEN [ret |-> parse_return(found_title_block, data), lines |-> Lst(without)]
    ELSE parse_line(lines, n, in_title_block, found_title_block, data, without, Strip(lines[n]))

\* parse(infilename) on a file of the given bytes: ret is what it returns or
\* raises, lines the attribute lines_without_title_block after the call.
parse_lines(lines) ==
    IF IsExc(lines) THEN [ret |-> lines, lines |-> Lst(<<>>)]
    ELSE parse_loop(lines.v, 1, FALSE, FALSE, <<>>, <<>>)
parse(bytes) == parse_lines(ReadLines(bytes))

\* Lines 210-211: the line written for each field.
FieldLines(items) ==
    [n \in 1..Len(items) |->
        <<" ", " ", " ", " ", " ", "(">> \o items[n][1] \o <<" ", "\"">> \o items[n][2] \o <<"\"", ")", "\n">>]
\* Lines 209-212: the lines written after the UUID line.
TitleBlockSection(items) ==
    <<<<" ", " ">> \o TitleBlockStart \o <<"\n">>>> \o FieldLines(items) \o <<<<" ", " ", ")", "\n">>>>

\* Lines 206-214: the strings insert_title_block_data writes, in order.
RECURSIVE insert_loop(_, _, _, _)
insert_loop_every(lines, n, items, already_inserted_title_block) ==
    Concat([i \in 1..(Len(lines) - n + 1) |->
               IF Contains(Strip(lines[n + i - 1]), UuidMarker)
               THEN <<lines[n + i - 1]>> \o TitleBlockSection(items)
               ELSE <<lines[n + i - 1]>>])
insert_loop(lines, n, items, already_inserted_title_block) ==
    IF n > Len(lines) THEN <<>>
    ELSE IF ~already_inserted_title_block /\ Contains(Strip(lines[n]), UuidMarker)
         THEN <<lines[n]>> \o TitleBlockSection(items) \o insert_loop(lines, n + 1, items, TRUE)
         ELSE <<lines[n]>> \o insert_loop(lines, n + 1, items, already_inserted_title_block)

\* The bytes of a file after the writes.
RECURSIVE Written(_, _)
Written(writes, sep) ==
    IF writes = <<>> THEN <<>> ELSE WriteText(writes[1], sep) \o Written(Tail(writes), sep)

\* The bytes of the output file of insert_title_block_data.
insert_title_block_data(lines, items, sep) == Written(insert_loop(lines, 1, items, FALSE), sep)

\* Line 199
backup_filename(filename) == filename \o ".ki-pa.bak"

\* shutil.copyfile(src, dst) and os.remove(path) on the files.
copyfile(files, src, dst) == (dst :> files[src]) @@ files
remove(files, path) == [p \in DOMAIN files \ {path} |-> files[p]]

\* Lines 158-166: the files after update_file(infile, outfile, update), or the
\* exception parse raised (nothing is written then).
update_parsed(files, outfile, update, parsed, sep) ==
    IF IsExc(parsed.ret) THEN [ret |-> parsed.ret, files |-> files]
    ELSE [ret |-> NoneV,
          files |-> (outfile :> insert_title_block_data(
                                    parsed.lines.v,
                                    DictUpdate(IF IsNone(parsed.ret) THEN <<>> ELSE parsed.ret.v, update),
                                    sep)) @@ files]
update_file(files, infile, outfile, update, sep) ==
    update_parsed(files, outfile, update, parse(files[infile]), sep)

\* Lines 180-185
update_file_inplace_with_backup(files, filename, update, sep) ==
    update_file(copyfile(files, filename, backup_filename(filename)), filename, filename, update, sep)

\* Lines 192-195 without the os.remove
restore_backup_keep(files, filename) ==
    IF backup_filename(filename) \notin DOMAIN files
    THEN [ret |-> Exc("FileNotFoundError"), files |-> files]
    ELSE [ret |-> NoneV, files |-> copyfile(files, backup_filename(filename), filename)]
\* Lines 192-195: copyfile raises when there is no backup.
restore_backup(files, filename) ==
    IF backup_filename(filename) \notin DOMAIN files
    THEN [ret |-> Exc("FileNotFoundError"), files |-> files]
    ELSE [ret |-> NoneV,
          files |-> remove(copyfile(files, backup_filename(filename), filename), backup_filename(filename))]

(***************************************************************************)
(* The rewrite of update_file failing with an OSError: open(outfilename,    *)
(* 'w') raises (written = -1, the file is left as it is), or open has       *)
(* truncated the file and the call outfile.write number written + 1 raises, *)
(* leaving what the first written calls wrote.                              *)
(***************************************************************************)
\* The number of outfile.write calls of a complete rewrite (lines 207-213).
WriteCount(parsed, update) ==
    Len(insert_loop(parsed.lines.v, 1,
                    DictUpdate(IF IsNone(parsed.ret) THEN <<>> ELSE parsed.ret.v, update), FALSE))

\* Lines 206-213, cut short
insert_title_block_data_failing(lines, items, sep, written) ==
    Written(SubSeq(insert_loop(lines, 1, items, FALSE), 1, written), sep)

\* Lines 158-166, the rewrite cut short
update_parsed_failing(files, outfile, update, parsed, sep, written) ==
    IF IsExc(parsed.ret) THEN [ret |-> parsed.ret, files |-> files]
    ELSE IF written < 0 THEN [ret |-> Exc("OSError"), files |-> files]
    ELSE [ret |-> Exc("OSError"),
          files |-> (outfile :> insert_title_block_data_failing(
                                    parsed.lines.v,
                                    DictUpdate(IF IsNone(parsed.ret) THEN <<>> ELSE parsed.ret.v, update),
                                    sep, written)) @@ files]
update_file_failing(files, infile, outfile, update, sep, written) ==
    update_parsed_failing(files, outfile, update, parse(files[infile]), sep, written)

\* Lines 180-185 with the backup taken after the rewrite
update_file_inplace_backup_last(files, filename, update, sep, written) ==
    [ret |-> update_file_failing(files, filename, filename, update, sep, written).ret,
     files |-> copyfile(update_file_failing(files, filename, filename, update, sep, written).files,
                        filename, backup_filename(filename))]
\* Lines 180-185, the rewrite cut short
update_file_inplace_with_backup_failing(files, filename, update, sep, written) ==
    update_file_failing(copyfile(files, filename, backup_filename(filename)),
                        filename, filename, update, sep, written)

(***************************************************************************)
(* Inputs: schematic files as KiCad writes them, with or without a UUID    *)
(* line and a title block, with either line ending.                        *)
(***************************************************************************)
MaxOps == 3
\* The rewrites that fail in a run, and where a rewrite fails: at open, at
\* the first write, at the fourth.
MaxFailures == 1
FailurePoints == {-1, 0, 3}

HeaderLine == <<"(", "k", "i", "c", "a", "d", "_", "s", "c", "h">>
UuidLine == <<" ", " ">> \o UuidMarker \o <<" ", "1", ")">>
PaperLine == <<" ", " ", "(", "p", "a", "p", "e", "r", " ", "\"", "A", "4", "\"", ")">>
StartLine == <<" ", " ">> \o TitleBlockStart
EndLine == <<" ", " ", ")">>
LastLine == <<")">>
\* (key rest) indented by four
FieldLine(key, rest) == <<" ", " ", " ", " ", "(">> \o key \o <<" ">> \o rest \o <<")">>

KeyTitle == <<"t", "i", "t", "l", "e">>
KeyRev == <<"r", "e", "v">>
KeyDate == <<"d", "a", "t", "e">>
KeyComment == <<"c", "o", "m", "m", "e", "n", "t">>
Quoted(value) == <<"\"">> \o value \o <<"\"">>

\* The title blocks: none, one without fields, (title "a  b") (rev "1"), and
\* (date "") (comment 1 "c") (comment 2 "d").
TitleBlocks ==
    { <<>>,
      <<StartLine, EndLine>>,
      <<StartLine, FieldLine(KeyTitle, Quoted(<<"a", " ", " ", "b">>)), FieldLine(KeyRev, Quoted(<<"1">>)), EndLine>>,
      <<StartLine, FieldLine(KeyDate, Quoted(<<>>)), FieldLine(KeyComment, <<"1", " ">> \o Quoted(<<"c">>)),
        FieldLine(KeyComment, <<"2", " ">> \o Quoted(<<"d">>)), EndLine>> }

\* The lines of a file: the UUID line before the title block, after it, or
\* nowhere, and for the empty title block also both before and after it.
SchematicLines ==
    { <<HeaderLine>> \o before \o <<PaperLine>> \o block \o after \o <<LastLine>> :
        before \in {<<>>, <<UuidLine>>}, block \in TitleBlocks, after \in {<<>>, <<UuidLine>>} }
        \ { <<HeaderLine, UuidLine, PaperLine>> \o block \o <<UuidLine, LastLine>> :
                block \in TitleBlocks \ {<<StartLine, EndLine>>} }

LineSeparators == { <<"\n">>, <<"\r", "\n">> }

\* The bytes of a file of the given lines, each ended by sep, the last one
\* only if final.
RECURSIVE Bytes(_, _, _)
Bytes(lines, sep, final) ==
    IF lines = <<>> THEN <<>>
    ELSE lines[1] \o (IF Len(lines) > 1 \/ final THEN sep ELSE <<>>) \o Bytes(Tail(lines), sep, final)

InputFiles ==
    { Bytes(lines, sep, final) : lines \in SchematicLines, sep \in LineSeparators, final \in BOOLEAN }
    \cup { Bytes(<<HeaderLine, UuidLine, PaperLine \o <<BadByte>>, LastLine>>, <<"\n">>, TRUE) }

\* The override mappings: none, {"rev": "2"}, and {"rev": "2", "comment 1": "g"}.
Updates ==
    { <<>>,
      << <<KeyRev, <<"2">>>> >>,
      << <<KeyRev, <<"2">>>>, <<KeyComment \o <<" ", "1">>, <<"g">>>> >> }

Schematic == "a.kicad_sch"
Output == "b.kicad_sch"

(***************************************************************************)
(* The operations of TitleBlockParser. An operation is recorded with the   *)
(* bytes of its target file before and after it and with its result.       *)
(***************************************************************************)
BytesOf(files, path) == IF path \in DOMAIN files THEN files[path] ELSE NoneV
Op(op, path, update, files, ret) ==
    [op |-> op, path |-> path, update |-> update, before |-> BytesOf(fs, path),
     after |-> BytesOf(files, path), ret |-> ret]

\* parser.parse(path)
ParsedInto(path, r) ==
    /\ lines_without_title_block' = r.lines
    /\ title_block_data' = r.ret
    /\ ops' = Append(ops, Op("parse", path, <<>>, fs, r.ret))
Parse(path) ==
    /\ Len(ops) < MaxOps
    /\ path \in DOMAIN fs
    /\ ParsedInto(path, parse(fs[path]))
    /\ UNCHANGED <<fs, linesep, sexprVars, fetchVars, diffVars, exportVars>>

\* parser.insert_title_block_data(M, path), M the mapping parse returned
Done(op, path, update, r) ==
    /\ fs' = r.files
    /\ ops' = Append(ops, Op(op, path, update, r.files, r.ret))
InsertTitleBlockData(path) ==
    /\ Len(ops) < MaxOps
    /\ IsDict(title_block_data)
    /\ Done("insert_title_block_data", path, title_block_data.v,
               [ret |-> NoneV,
                files |-> (path :> insert_title_block_data(lines_without_title_block.v,
                                                           title_block_data.v, linesep)) @@ fs])
    /\ UNCHANGED <<linesep, lines_without_title_block, title_block_data, sexprVars, fetchVars, diffVars, exportVars>>

\* TitleBlockParser.update_file(infile, outfile, update)
UpdateFile(infile, outfile, update) ==
    /\ Len(ops) < MaxOps
    /\ infile \in DOMAIN fs
    /\ Done("update_file", outfile, update, update_file(fs, infile, outfile, update, linesep))
    /\ UNCHANGED <<linesep, lines_without_title_block, title_block_data, sexprVars, fetchVars, diffVars, exportVars>>

\* TitleBlockParser.update_file_inplace_with_backup(filename, update)
UpdateFileInplaceWithBackup(filename, update) ==
    /\ Len(ops) < MaxOps
    /\ filename \in DOMAIN fs
    /\ Done("update_file_inplace_with_backup", filename, update,
               update_file_inplace_with_backup(fs, filename, update, linesep))
    /\ UNCHANGED <<linesep, lines_without_title_block, title_block_data, sexprVars, fetchVars, diffVars, exportVars>>

\* TitleBlockParser.update_file_inplace_with_backup(filename, update) whose
\* rewrite raises OSError
Failures == Cardinality({ n \in 1..Len(ops) : ops[n].ret = Exc("OSError") })
UpdateFileInplaceWithBackupFails(filename, update, written) ==
    /\ Len(ops) < MaxOps
    /\ Failures < MaxFailures
    /\ filename \in DOMAIN fs
    /\ ~IsExc(parse(fs[filename]).ret)
    /\ written < WriteCount(parse(fs[filename]), update)
    /\ Done("update_file_inplace_with_backup", filename, update,
               update_file_inplace_with_backup_failing(fs, filename, update, linesep, written))
    /\ UNCHANGED <<linesep, lines_without_title_block, title_block_data, sexprVars, fetchVars, diffVars, exportVars>>

\* TitleBlockParser.restore_backup(filename)
RestoreBackup(filename) ==
    /\ Len(ops) < MaxOps
    /\ Done("restore_backup", filename, <<>>, restore_backup(fs, filename))
    /\ UNCHANGED <<linesep, lines_without_title_block, title_block_data, sexprVars, fetchVars, diffVars, exportVars>>

InitTB ==
    /\ sexpr = NoneV
    /\ tree = NoneV
    /\ calls = <<>>
    /\ fs \in { (Schematic :> bytes) : bytes \in InputFiles }
    /\ linesep \in LineSeparators
    /\ lines_without_title_block = NoneV
    /\ title_block_data = NoneV
    /\ ops = <<>>
    /\ FetchIdle
    /\ DiffIdle
    /\ ExportIdle

NextTB ==
    \/ \E path \in {Schematic, Output} : Parse(path)
    \/ InsertTitleBlockData(Output)
    \/ \E update \in Updates : UpdateFile(Schematic, Output, update)
    \/ \E update \in Updates : UpdateFileInplaceWithBackup(Schematic, update)
    \/ RestoreBackup(Schematic)

SpecTB == InitTB /\ [][NextTB]_vars

\* In-place updates whose rewrite may fail, and restores.
NextTBFailing ==
    \/ \E update \in Updates : UpdateFileInplaceWithBackup(Schematic, update)
    \/ \E update \in Updates, written \in FailurePoints :
           UpdateFileInplaceWithBackupFails(Schematic, update, written)
    \/ RestoreBackup(Schematic)

SpecTBFailing == InitTB /\ [][NextTBFailing]_vars

(***************************************************************************)
(* Properties of TitleBlockParser.                                         *)
(***************************************************************************)
\* The lines of a file outside its title block, as the bytes have them: the
\* file cut after each "\n", less the lines from the one with the start
\* marker to the one that is a closing parenthesis.
RawLines(bytes) == CutAfter(bytes, Sorted({ i \in 1..Len(bytes) : bytes[i] = "\n" }))
OutsideLines(bytes) == parse_loop(RawLines(bytes), 1, FALSE, FALSE, <<>>, <<>>).lines.v
HasUuidLine(bytes) ==
    \E n \in 1..Len(OutsideLines(bytes)) : Contains(OutsideLines(bytes)[n], UuidMarker)

\* parse(f) returned a mapping, insert_title_block_data(M, out) wrote it, and
\* parse(out) read it back: the last three operations.
RoundTripDone ==
    /\ Len(ops) >= 3
    /\ LET n == Len(ops) IN
       /\ ops[n - 2].op = "parse" /\ ops[n - 2].path = Schematic /\ IsDict(ops[n - 2].ret)
       /\ ops[n - 1].op = "insert_title_block_data" /\ ops[n - 1].path = Output
       /\ ops[n].op = "parse" /\ ops[n].path = Output

\* C2: for a file with a title block that parses to M (and with a UUID line,
\* which every valid file has), after parse and insert_title_block_data(M, out)
\* the title block of out parses to M again, same keys, values and order, and
\* the lines of out outside the title block are byte for byte the lines of the
\* file outside its title block.
C2_TitleBlockRoundTrip ==
    (RoundTripDone /\ HasUuidLine(ops[Len(ops) - 2].before)) =>
        /\ ops[Len(ops)].ret = ops[Len(ops) - 2].ret
        /\ OutsideLines(fs[Output]) = OutsideLines(ops[Len(ops) - 2].before)

\* update_file_inplace_with_backup(f, U) and then restore_backup(f): the last
\* two operations.
BackupRestored ==
    /\ Len(ops) >= 2
    /\ ops[Len(ops) - 1].op = "update_file_inplace_with_backup"
    /\ ops[Len(ops)].op = "restore_backup"

\* C3: update_file_inplace_with_backup(f, U) followed at once by
\* restore_backup(f) leaves f with the bytes it had before the update and
\* leaves no file f.ki-pa.bak.
C3_BackupRestoreRoundTrip ==
    BackupRestored =>
        /\ fs[Schematic] = ops[Len(ops) - 1].before
        /\ backup_filename(Schematic) \notin DOMAIN fs

\* The update had rewritten the file with other bytes, and the restore undid it.
C3_Witness ==
    /\ BackupRestored
    /\ ops[Len(ops) - 1].update # <<>>
    /\ ops[Len(ops) - 1].after # ops[Len(ops) - 1].before
    /\ fs[Schematic] = ops[Len(ops) - 1].before

\* C13: a parse that returns at all returns None exactly when nothing in the
\* file contains the start marker, and a mapping, empty when the block has no
\* field line, when a line contains it.
C13_NoneIffNoStartMarker ==
    \A n \in 1..Len(ops) :
        (ops[n].op = "parse" /\ ~IsExc(ops[n].ret)) =>
            /\ IsNone(ops[n].ret) <=> ~Contains(ops[n].before, TitleBlockStart)
            /\ Contains(ops[n].before, TitleBlockStart) => IsDict(ops[n].ret)
            /\ n = Len(ops) => title_block_data = ops[n].ret

\* parse has returned the empty mapping for a file whose title block has no
\* field line.
C13_Witness ==
    \E n \in 1..Len(ops) :
        /\ ops[n].op = "parse"
        /\ ops[n].ret = OrderedDict(<<>>)
        /\ Contains(ops[n].before, TitleBlockStart)

\* The state machine of the specification over the lines of a file: line i
\* is read in state InsideBlock when a start-marker line before it has not
\* been followed, before line i, by a line that is a closing paren.
IsStartLine(line) == Contains(Strip(line), TitleBlockStart)
ReadInsideBlock(lines, i) ==
    \E j \in 1..(i - 1) :
        /\ IsStartLine(lines[j])
        /\ \A k \in (j + 1)..(i - 1) : Strip(lines[k]) # <<")">>
\* The lines read in state OutsideBlock that do not contain the start marker.
OutsideBlockLines(lines) ==
    LET kept == Sorted({ i \in 1..Len(lines) : ~IsStartLine(lines[i]) /\ ~ReadInsideBlock(lines, i) })
    IN [n \in 1..Len(kept) |-> lines[kept[n]]]

\* C14: after parse has returned, lines_without_title_block holds, in input
\* order and byte for byte (line ending included), the lines of the file
\* read in state OutsideBlock that do not contain the start marker, and so
\* neither the start-marker line, nor a line read inside the block, nor the
\* closing line of the block.
C14_BufferIsOutsideLinesVerbatim ==
    (Len(ops) > 0 /\ ops[Len(ops)].op = "parse" /\ ~IsExc(ops[Len(ops)].ret)) =>
        lines_without_title_block = Lst(OutsideBlockLines(RawLines(ops[Len(ops)].before)))

\* The section of the specification for a mapping: the opening line, one
\* line per field in mapping order with the value in double quotes, and the
\* closing line.
ExpectedSection(items) ==
    <<<<" ", " ", "(", "t", "i", "t", "l", "e", "_", "b", "l", "o", "c", "k", "\n">>>>
    \o [n \in 1..Len(items) |->
           <<" ", " ", " ", " ", " ", "(">> \o items[n][1] \o <<" ", "\"">>
               \o items[n][2] \o <<"\"", ")", "\n">>]
    \o <<<<" ", " ", ")", "\n">>>>
UuidLines(lines) == { n \in 1..Len(lines) : Contains(lines[n], UuidMarker) }
FirstUuidLine(lines) == CHOOSE n \in UuidLines(lines) : \A k \in UuidLines(lines) : n <= k
\* What the specification has insert_title_block_data write, in order.
ExpectedWrites(lines, items) ==
    IF UuidLines(lines) = {} THEN lines
    ELSE SubSeq(lines, 1, FirstUuidLine(lines)) \o ExpectedSection(items)
         \o SubSeq(lines, FirstUuidLine(lines) + 1, Len(lines))
InsertDone ==
    /\ Len(ops) > 0
    /\ ops[Len(ops)].op = "insert_title_block_data"

\* C15: the file insert_title_block_data leaves is made of the writes, in
\* order, of every buffered line as it is and of one title-block section
\* right after the first buffered line that contains (uuid, when there is
\* such a line, and of no section when there is none; the section is the
\* opening line, a line per field of the mapping in its order with the value
\* in double quotes, and a closing line.
C15_SectionOnceAfterFirstUuidLine ==
    InsertDone =>
        /\ ops[Len(ops)].after
               = Written(ExpectedWrites(lines_without_title_block.v, title_block_data.v), linesep)
        /\ linesep = <<"\n">> =>
               ops[Len(ops)].after
                   = Concat(ExpectedWrites(lines_without_title_block.v, title_block_data.v))

\* A section with a field was written for a buffer with two lines
\* that contain (uuid.
C15_Witness ==
    /\ InsertDone
    /\ Cardinality(UuidLines(lines_without_title_block.v)) = 2
    /\ Len(title_block_data.v) >= 1
    /\ ops[Len(ops)].after # NoneV

\* The mapping parsed overridden by update, as the specification has it:
\* the parsed keys in their order, with update's value where update has the
\* key, followed by the keys only update has, in update's order.
Keys(items) == { items[n][1] : n \in 1..Len(items) }
ValueOf(items, key) == (CHOOSE n \in 1..Len(items) : items[n][1] = key)
Overridden(parsed, update) ==
    [n \in 1..Len(parsed) |->
        IF parsed[n][1] \in Keys(update)
        THEN <<parsed[n][1], update[ValueOf(update, parsed[n][1])][2]>>
        ELSE parsed[n]]
    \o SelectSeq(update, LAMBDA u : u[1] \notin Keys(parsed))
\* The mapping parse returns for the file, the empty one when it returns None.
ParsedOrEmpty(bytes) == IF IsDict(parse(bytes).ret) THEN parse(bytes).ret.v ELSE <<>>
UpdateFileDone ==
    /\ Len(ops) > 0
    /\ ops[Len(ops)].op = "update_file"
    /\ ~IsExc(ops[Len(ops)].ret)

\* C16: the file update_file(infile, outfile, U) leaves is the lines of
\* infile outside its title block with, after the first (uuid line, the
\* section of the mapping parsed from infile (empty when it has no title
\* block) overridden by U: U's value for every key of U, the parsed value
\* for every other parsed key, parsed keys in their order and then the keys
\* new in U.
C16_UpdateOverridesParsed ==
    UpdateFileDone =>
        ops[Len(ops)].after
            = Written(ExpectedWrites(OutsideBlockLines(FileLines(fs[Schematic])),
                                     Overridden(ParsedOrEmpty(fs[Schematic]), ops[Len(ops)].update)),
                      linesep)

\* update_file has written a mapping in which U overrides one parsed key,
\* keeps another and adds a new one.
C16_Witness ==
    /\ UpdateFileDone
    /\ UuidLines(OutsideBlockLines(FileLines(fs[Schematic]))) # {}
    /\ LET parsed == ParsedOrEmpty(fs[Schematic])
           update == ops[Len(ops)].update
       IN /\ Keys(parsed) \cap Keys(update) # {}
          /\ Keys(parsed) \ Keys(update) # {}
          /\ Keys(update) \ Keys(parsed) # {}
          /\ \E n \in 1..Len(parsed) :
                 parsed[n][1] \in Keys(update) /\ Overridden(parsed, update)[n] # parsed[n]

\* The rewrite of an update_file_inplace_with_backup raised after the backup
\* was taken: at open or at a write (OSError), or in parse (the file cannot
\* be decoded).
FailedAfterBackup(n) ==
    /\ ops[n].op = "update_file_inplace_with_backup"
    /\ IsExc(ops[n].ret)

\* C17: when the rewrite of update_file_inplace_with_backup fails, the
\* backup file holds the bytes the file had before the update and the file
\* is left as the failure left it, not rolled back; a restore_backup that
\* follows makes the file those bytes again and removes the backup.
C17_BackupSurvivesFailedRewrite ==
    /\ (Len(ops) >= 1 /\ FailedAfterBackup(Len(ops))) =>
           /\ backup_filename(Schematic) \in DOMAIN fs
           /\ fs[backup_filename(Schematic)] = ops[Len(ops)].before
           /\ fs[Schematic] = ops[Len(ops)].after
    /\ (Len(ops) >= 2 /\ FailedAfterBackup(Len(ops) - 1) /\ ops[Len(ops)].op = "restore_backup") =>
           /\ ops[Len(ops)].ret = NoneV
           /\ fs[Schematic] = ops[Len(ops) - 1].before

\* A write failed and left the file cut short, and restore_backup brought
\* the original bytes back.
C17_Witness ==
    /\ Len(ops) >= 2
    /\ FailedAfterBackup(Len(ops) - 1)
    /\ ops[Len(ops) - 1].ret = Exc("OSError")
    /\ ops[Len(ops) - 1].after # ops[Len(ops) - 1].before
    /\ ops[Len(ops)].op = "restore_backup"
    /\ fs[Schematic] = ops[Len(ops) - 1].before

\* The field lines of the title block of a file, stripped: the lines read
\* inside the block, but for its closing line.
BlockFieldLines(lines) ==
    LET inside == Sorted({ i \in 1..Len(lines) :
                             /\ ~IsStartLine(lines[i])
                             /\ ReadInsideBlock(lines, i)
                             /\ Strip(lines[i]) # <<")">> })
    IN [n \in 1..Len(inside) |-> Strip(lines[inside[n]])]
\* The lines (comment n ...) among them.
CommentLines(fields, n) ==
    SelectSeq(fields, LAMBDA line : /\ Len(Split(line)) >= 2
                                    /\ Split(line)[1] = <<"(">> \o KeyComment
                                    /\ Split(line)[2] = n)
CommentKey(n) == KeyComment \o <<" ">> \o n

\* C26: update_file on a schematic whose title block has a line
\* (comment 1 "old"), with the override key "comment 1", writes a title
\* block with exactly one comment-1 line, which carries the override value;
\* and the lines (comment 1 ...) and (comment 2 ...) of the input that are not
\* overridden are two distinct fields and reappear unchanged in the written
\* title block.
C26_NumberedCommentsKept ==
    (UpdateFileDone /\ UuidLines(OutsideBlockLines(FileLines(fs[Schematic]))) # {}) =>
        LET input == BlockFieldLines(FileLines(fs[Schematic]))
            output == BlockFieldLines(FileLines(ops[Len(ops)].after))
            update == ops[Len(ops)].update
        IN  \A n \in {<<"1">>, <<"2">>} :
               CommentLines(input, n) # <<>> =>
                   IF CommentKey(n) \in Keys(update)
                   THEN CommentLines(output, n)
                            = << <<"(">> \o CommentKey(n) \o <<" ">>
                                    \o Quoted(update[ValueOf(update, CommentKey(n))][2]) \o <<")">> >>
                   ELSE CommentLines(output, n) = CommentLines(input, n)

\* The operations from m on are calls of update_file_inplace_with_backup.
UpdatesFrom(m, last) ==
    /\ m <= last
    /\ \A j \in m..last : ops[j].op = "update_file_inplace_with_backup"

\* C25: after k >= 1 calls of update_file_inplace_with_backup(f, U) in a
\* row and one restore_backup(f), f has the bytes it had before the first of
\* the k calls; and while the calls go on, f.ki-pa.bak holds those bytes.
C25_RestoreAfterUpdatesRestoresFirst ==
    \A m \in 1..Len(ops) :
        /\ (UpdatesFrom(m, Len(ops) - 1) /\ ops[Len(ops)].op = "restore_backup")
              => fs[Schematic] = ops[m].before
        /\ UpdatesFrom(m, Len(ops))
              => fs[backup_filename(Schematic)] = ops[m].before

(***************************************************************************)
(* parse_sexpr from the text on (SExpressions.py, lines 74-84): the        *)
(* grammar token = nestedExpr('(', ')', content=OneOrMore(word)), which    *)
(* pyparsing builds as Group('(' + ZeroOrMore(quoted | token | content) +  *)
(* ')'), and token.parseString(sexpr, parseAll=True). The text is a        *)
(* sequence of characters; pos is the 1-based place of the next one.       *)
(***************************************************************************)
Text(chars) == [k |-> "text", v |-> chars]
IsText(x) == x.k = "text"

\* The characters of Word(alphanums + '_-.:/?=&') that the texts use.
WordChars == {"a"}
\* The Python string of a word of n characters.
WordOf(n) == <<"a", "aa", "aaa", "aaaa", "aaaaa", "aaaaaa", "aaaaaaa", "aaaaaaaa">>[n]

\* Whitespace (setDefaultWhitespaceChars, line 74) is skipped before a token.
RECURSIVE SkipWhitespace(_, _)
SkipWhitespace(text, pos) ==
    IF pos <= Len(text) /\ text[pos] \in Whitespace THEN SkipWhitespace(text, pos + 1) ELSE pos
\* Word matches the longest run of its characters.
RECURSIVE WordEnd(_, _)
WordEnd(text, pos) ==
    IF pos <= Len(text) /\ text[pos] \in WordChars THEN WordEnd(text, pos + 1) ELSE pos

NoMatch == [ok |-> FALSE, node |-> NoneV, pos |-> 0]
Match(node, pos) == [ok |-> TRUE, node |-> node, pos |-> pos]

\* token at pos: the opener, then the elements, then the closer. An element
\* is a nested token or a run of words; when neither matches, the closer
\* must follow.
RECURSIVE nestedExpr(_, _)
RECURSIVE nestedExprElements(_, _, _)
nestedExprAfter(text, acc, r) ==
    IF r.ok THEN nestedExprElements(text, r.pos, Append(acc, r.node)) ELSE NoMatch
nestedExprAt(text, pos, acc) ==
    IF pos > Len(text) THEN NoMatch
    ELSE IF text[pos] = "(" THEN nestedExprAfter(text, acc, nestedExpr(text, pos))
    ELSE IF text[pos] \in WordChars
         THEN nestedExprElements(text, WordEnd(text, pos),
                                 Append(acc, Str(WordOf(WordEnd(text, pos) - pos))))
    ELSE IF text[pos] = ")" THEN Match(Lst(acc), pos + 1)
    ELSE NoMatch
nestedExprElements(text, pos, acc) == nestedExprAt(text, SkipWhitespace(text, pos), acc)
nestedExprOpened(text, pos) ==
    IF pos <= Len(text) /\ text[pos] = "(" THEN nestedExprElements(text, pos + 1, <<>>) ELSE NoMatch
nestedExpr(text, pos) == nestedExprOpened(text, SkipWhitespace(text, pos))

\* Lines 81-82: token.parseString(sexpr, parseAll=True).asList()[0], or the
\* ParseException: parseAll wants only whitespace after the token.
parseStringAll(text, r) ==
    IF r.ok /\ SkipWhitespace(text, r.pos) > Len(text) THEN r.node ELSE Exc("ParseException")
parseString(text) == parseStringAll(text, nestedExpr(text, 1))

\* Lines 74-118 for a str
parse_sexpr_folded(parsed_data0) ==
    IF IsExc(parsed_data0) THEN parsed_data0 ELSE to_dict(parsed_data0)
parse_sexpr_str(text) == parse_sexpr_folded(parseString(text))

\* The texts: every sequence of at most MaxText characters out of an
\* opener, a closer, a word character and a blank.
MaxText == 6
Alphabet == {"(", ")", "a", " "}
Texts == UNION { [1..n -> Alphabet] : n \in 0..MaxText }

ParseText ==
    /\ IsText(sexpr)
    /\ IsNone(tree)
    /\ tree' = parse_sexpr_str(sexpr.v)
    /\ UNCHANGED <<sexpr, calls, tbVars, fetchVars, diffVars, exportVars>>

InitText ==
    /\ sexpr \in { Text(chars) : chars \in Texts }
    /\ tree = NoneV
    /\ calls = <<>>
    /\ TitleBlockIdle
    /\ FetchIdle
    /\ DiffIdle
    /\ ExportIdle
NextText == ParseText
SpecText == InitText /\ [][NextText]_vars

\* The nesting depth after the first i characters of a text.
Depth(text, i) ==
    Cardinality({ j \in 1..i : text[j] = "(" }) - Cardinality({ j \in 1..i : text[j] = ")" })
Unbalanced(text) ==
    \/ \E i \in 1..Len(text) : Depth(text, i) < 0
    \/ Depth(text, Len(text)) # 0
\* Something other than whitespace stands outside the first balanced group:
\* before its opener or after its closer.
OutsideFirstGroup(text) ==
    \E i \in 1..Len(text) :
        /\ text[i] \notin Whitespace
        /\ \/ text[i] # "(" /\ Depth(text, i) = 0 /\ text[i] # ")"
           \/ \E j \in 1..(i - 1) : Depth(text, j) = 0 /\ \E h \in 1..j : text[h] = "("
\* An opener followed, after whitespace at most, by a closer.
HasEmptyList(text) ==
    \E i \in 1..Len(text) :
        /\ text[i] = "("
        /\ SkipWhitespace(text, i + 1) <= Len(text)
        /\ text[SkipWhitespace(text, i + 1)] = ")"
OneBalancedList(text) ==
    /\ \E i \in 1..Len(text) : text[i] = "("
    /\ ~Unbalanced(text)
    /\ ~OutsideFirstGroup(text)
ParsedText == IsText(sexpr) /\ ~IsNone(tree)

\* C18: parse_sexpr returns a folded tree only for a text that is exactly
\* one balanced top-level list; a text with unbalanced parentheses, with
\* tokens after the first balanced group, or with an empty list () in it
\* fails with the parse error and returns no tree.
C18_OnlyOneBalancedListAccepted ==
    ParsedText =>
        /\ IsDict(tree) => OneBalancedList(sexpr.v)
        /\ (Unbalanced(sexpr.v) \/ OutsideFirstGroup(sexpr.v) \/ HasEmptyList(sexpr.v))
               => tree = Exc("ParseException")

(***************************************************************************)
(* DatasheetFetcher (DatasheetChecker.py). The event loop runs one task at *)
(* a time and hands over only at an await that has to wait: a worker runs  *)
(* from its creation, or from the arrival of a response, to its next       *)
(* client.get, and the tasks created in fetch_and_verify_urls take their   *)
(* first step in the order of their creation before any response is        *)
(* handled. The URLs of the model are valid http URLs, which pass the      *)
(* checks of lines 33-46, and a server answers a URL either with a         *)
(* redirect (302, with a Location or without one) or with a PDF (200).     *)
(***************************************************************************)
CONCURRENT_LIMIT_PER_HOST == 5
\* fetch_url(..., redirects_left=3)
redirects_left_default == 3

\* urlparse(url).hostname of the URLs of the model
hostname(url) ==
    CASE url \in {"http://a/1", "http://a/2", "http://a/9", "https://a/1", "https://a/9"} -> "a"
      [] url \in {"http://b/1", "http://b/2", "http://b/3", "http://b/4", "http://b/5",
                  "http://b/6", "http://b/9"} -> "b"
\* urlparse(url).scheme
scheme(url) == IF url \in {"https://a/1", "https://a/9"} THEN "https" ELSE "http"
\* Line 64: parsed_url._replace(scheme='https'), as a URL
https_of(url) ==
    CASE url = "http://a/1" -> "https://a/1"
      [] url = "http://a/9" -> "https://a/9"
      [] OTHER -> "https" \o url

DatasheetWarning(symbol, url, message) ==
    [kind |-> "DatasheetWarning", symbol |-> symbol, url |-> url, message |-> message]
DatasheetError(symbol, url, message) ==
    [kind |-> "DatasheetError", symbol |-> symbol, url |-> url, message |-> message]

\* Lines 162-165: the hosts in the order in which their queues are made, and
\* the items put into the queue of a host.
RECURSIVE HostsOf(_, _)
HostsOf(items, seen) ==
    IF items = <<>> THEN seen
    ELSE HostsOf(Tail(items),
                 IF \E n \in 1..Len(seen) : seen[n] = hostname(items[1][2]) THEN seen
                 ELSE Append(seen, hostname(items[1][2])))
QueueOf(items, host) == SelectSeq(items, LAMBDA item : hostname(item[2]) = host)

\* A worker task: the host of its queue, where it stands (created, request:
\* waiting in client.get, exited), the item it works on, the URL it has
\* requested, the number of requests made for the item, and the arguments
\* and results of the fetch_url call it is in.
Worker(host) ==
    [host |-> host, pc |-> "created", symbol |-> "", url |-> "", request |-> "", requests |-> 0,
     prefix |-> "", redirects_left |-> 0, found |-> <<>>]
\* Lines 168-171: CONCURRENT_LIMIT_PER_HOST workers for each queue
RECURSIVE WorkersOf(_)
WorkersOf(hosts) ==
    IF hosts = <<>> THEN <<>>
    ELSE [n \in 1..CONCURRENT_LIMIT_PER_HOST |-> Worker(hosts[1])] \o WorkersOf(Tail(hosts))

\* Lines 105-108 and 49: while not queue.empty(): queue.get(), then
\* fetch_url up to its client.get; the worker leaves the loop on an empty
\* queue.
NextItem(worker, queue) ==
    IF queue = <<>> THEN [worker EXCEPT !.pc = "exited", !.symbol = "", !.url = "", !.request = "",
                                         !.requests = 0, !.prefix = "", !.redirects_left = 0,
                                         !.found = <<>>]
    ELSE [worker EXCEPT !.pc = "request", !.symbol = queue[1][1], !.url = queue[1][2],
                        !.request = queue[1][2], !.requests = 1, !.prefix = "",
                        !.redirects_left = redirects_left_default, !.found = <<>>]
Taken(queue) == IF queue = <<>> THEN queue ELSE Tail(queue)

\* The requests in flight to a host.
InFlight(host) ==
    Cardinality({ w \in 1..Len(workers) :
                    workers[w].pc = "request" /\ hostname(workers[w].request) = host })

\* fetch_and_verify_urls, lines 157-171: the queues and the worker tasks
FetchAndVerifyUrls ==
    /\ url_dict # <<>>
    /\ workers = <<>>
    /\ returned = NoneV
    /\ tasks_total' = tasks_total + Len(url_dict)
    /\ queues' = [host \in { hostname(url_dict[n][2]) : n \in 1..Len(url_dict) } |->
                      QueueOf(url_dict, host)]
    /\ workers' = WorkersOf(HostsOf(url_dict, <<>>))
    /\ UNCHANGED <<url_dict, web, tasks_done, results, returned, taken, report,
                   sexprVars, tbVars, diffVars, exportVars>>

\* Lines 105-108: worker w at the head of its loop; taken records the
\* queue.get calls that returned an item.
LoopHead(w) ==
    /\ workers' = [workers EXCEPT ![w] = NextItem(@, queues[@.host])]
    /\ queues' = [queues EXCEPT ![workers[w].host] = Taken(@)]
    /\ taken' = IF queues[workers[w].host] = <<>> THEN taken
                ELSE Append(taken, <<w, queues[workers[w].host][1][1]>>)

\* The first step of worker w (lines 103-108)
WorkerStart(w) ==
    /\ w \in 1..Len(workers)
    /\ workers[w].pc = "created"
    /\ \A v \in 1..(w - 1) : workers[v].pc # "created"
    /\ LoopHead(w)
    /\ UNCHANGED <<url_dict, web, tasks_done, tasks_total, results, returned, report,
                   sexprVars, tbVars, diffVars, exportVars>>

Responding(w) ==
    /\ w \in 1..Len(workers)
    /\ workers[w].pc = "request"
    /\ \A v \in 1..Len(workers) : workers[v].pc # "created"

\* Lines 113-116 and 105-108: fetch_url has returned result (or the worker
\* has made one from its exception); the worker counts the task, adds the
\* results and goes round its loop.
TaskDone(w, result) ==
    /\ tasks_done' = tasks_done + 1
    /\ results' = results \o result
    /\ LoopHead(w)
    /\ UNCHANGED <<url_dict, web, tasks_total, returned, report, sexprVars, tbVars, diffVars, exportVars>>

\* Lines 49, 77-92: a 200 response with a PDF
ResponsePdf(w) ==
    /\ Responding(w)
    /\ workers[w].request \notin DOMAIN web
    /\ TaskDone(w, workers[w].found)

\* Lines 58-74: the result added for a redirect that is followed.
redirect_result(symbol, url, location, prefix) ==
    IF scheme(url) = "http" /\ scheme(location) = "https"
    THEN IF https_of(url) = location
         THEN DatasheetWarning(symbol, location,
                               prefix \o "URL has changed from HTTP to HTTPS (no other changes)")
         ELSE DatasheetError(symbol, location, prefix \o "URL has changed to " \o location)
    ELSE DatasheetWarning(symbol, url, prefix \o "URL has changed to " \o location)

\* (Line 76 with redirects_left handed on as it is.)
fetch_url_redirected_unbounded(worker, location, result) ==
    [worker EXCEPT !.request = location,
                   !.requests = @ + 1,
                   !.prefix = @ \o "[Redirected] ",
                   !.found = Append(@, result)]
\* Line 76: fetch_url again with the Location, up to its client.get; its
\* results will follow the ones gathered so far.
fetch_url_redirected(worker, location, result) ==
    [worker EXCEPT !.request = location,
                   !.requests = @ + 1,
                   !.prefix = @ \o "[Redirected] ",
                   !.redirects_left = @ - 1,
                   !.found = Append(@, result)]

\* Lines 52-76: a 301 or 302 response with redirects left: a result, and
\* fetch_url again with the Location, by the same worker and the same client.
ResponseRedirect(w) ==
    /\ Responding(w)
    /\ workers[w].request \in DOMAIN web
    /\ web[workers[w].request] # ""
    /\ workers[w].redirects_left # 0
    /\ workers' = [workers EXCEPT ![w] =
           fetch_url_redirected(@, web[workers[w].request],
                                redirect_result(workers[w].symbol, workers[w].request,
                                                web[workers[w].request], workers[w].prefix))]
    /\ UNCHANGED <<url_dict, web, queues, tasks_done, tasks_total, results, returned, taken, report,
                   sexprVars, tbVars, diffVars, exportVars>>

\* Lines 52-57: a redirect with none left
ResponseTooManyRedirects(w) ==
    /\ Responding(w)
    /\ workers[w].request \in DOMAIN web
    /\ web[workers[w].request] # ""
    /\ workers[w].redirects_left = 0
    /\ TaskDone(w, Append(workers[w].found,
                          DatasheetError(workers[w].symbol, workers[w].request,
                              workers[w].prefix \o "Too many redirects. Final redirect was to "
                                  \o web[workers[w].request])))

\* (The worker ended by the exception: lines 109-112 left out.)
ResponseRaisesUncaught(w) ==
    /\ Responding(w)
    /\ workers[w].request \in DOMAIN web
    /\ web[workers[w].request] = ""
    /\ workers' = [workers EXCEPT ![w] = NextItem(@, <<>>)]
    /\ UNCHANGED <<url_dict, web, queues, tasks_done, tasks_total, results, returned, taken, report,
                   sexprVars, tbVars, diffVars, exportVars>>
\* Lines 56, 59 and 109-112: a 301 or 302 response without a Location
\* header: response.headers['Location'] raises KeyError out of fetch_url (and
\* out of the calls of it that followed redirects), and the worker makes
\* its result from the exception, for the URL of the item.
ResponseRaises(w) ==
    /\ Responding(w)
    /\ workers[w].request \in DOMAIN web
    /\ web[workers[w].request] = ""
    /\ TaskDone(w, <<DatasheetError(workers[w].symbol, workers[w].url,
                        "Exception while fetching datasheet: <class 'KeyError'>: 'Location'")>>)

\* Lines 173-192: all tasks are counted as done; the queues are joined, the
\* workers cancelled and the results returned.
Return ==
    /\ workers # <<>>
    /\ returned = NoneV
    /\ \A v \in 1..Len(workers) : workers[v].pc # "created"
    /\ tasks_done >= tasks_total
    /\ returned' = Lst(results)
    /\ UNCHANGED <<url_dict, web, queues, workers, tasks_done, tasks_total, results, taken, report,
                   sexprVars, tbVars, diffVars, exportVars>>

\* The library of the run: os.path.splitext(os.path.basename(filename))[0]
library_name == "lib"

\* isinstance(x, DatasheetError), isinstance(x, DatasheetWarning)
isinstance(x, class) == "kind" \in DOMAIN x /\ x.kind = class

\* Lines 195-206: results grouped by library and then by symbol; every result
\* of the run has the library of the run.
group_results_by_library_and_symbol(rs) ==
    IF rs = <<>> THEN Dct(EmptyDict)
    ELSE Dct(library_name :>
                Dct([symbol \in { rs[n].symbol : n \in 1..Len(rs) } |->
                        Lst(SelectSeq(rs, LAMBDA r : r.symbol = symbol))]))

\* symbols_dict[library_name] on the defaultdict: an empty dictionary is put
\* under a key that is not there (line 283).
defaultdict_item(d, key) == IF key \in DOMAIN d.v THEN d ELSE Dct((key :> Dct(EmptyDict)) @@ d.v)

\* Lines 252-265: count_symbols_by_status(symbols_dict); the values of the
\* dictionary are iterated, a list by its elements and a dictionary by its
\* keys.
has_instance(value, class) == \E n \in 1..Len(Iter(value)) : isinstance(Iter(value)[n], class)
count_symbols_by_status(symbols_dict) ==
    [symbols_with_error |->
        Cardinality({ symbol \in DOMAIN symbols_dict.v :
                        has_instance(symbols_dict.v[symbol], "DatasheetError") }),
     symbols_with_warning_only |->
        Cardinality({ symbol \in DOMAIN symbols_dict.v :
                        /\ ~has_instance(symbols_dict.v[symbol], "DatasheetError")
                        /\ has_instance(symbols_dict.v[symbol], "DatasheetWarning") })]

\* Lines 280-299: the HTML page is made from symbols_dict[library_name]
\* (line 283, and line 210 in create_html_page_for_library), the statistics of
\* the YAML file and of the summary from symbols_dict (line 290).
process_library_report(symbols_dict) ==
    [html |-> count_symbols_by_status(defaultdict_item(symbols_dict, library_name).v[library_name]),
     statistics |-> count_symbols_by_status(defaultdict_item(symbols_dict, library_name)),
     results |-> defaultdict_item(symbols_dict, library_name).v[library_name]]

\* process_library, lines 280-299, after fetch_and_verify_urls has returned
ProcessLibrary ==
    /\ returned # NoneV
    /\ report = NoneV
    /\ report' = process_library_report(group_results_by_library_and_symbol(returned.v))
    /\ UNCHANGED <<url_dict, web, queues, workers, tasks_done, tasks_total, results, returned, taken,
                   sexprVars, tbVars, diffVars, exportVars>>

\* The url_dict of a library: symbols S1, S2, ... with the URLs given.
UrlDict(urls) == [n \in 1..Len(urls) |-> <<<<"S1", "S2", "S3", "S4", "S5", "S6">>[n], urls[n]>>]
UrlDicts ==
    { UrlDict(<<"http://a/1", "http://b/1", "http://b/2", "http://b/3", "http://b/4", "http://b/5">>),
      UrlDict(<<"http://b/1", "http://b/2", "http://b/3", "http://b/4", "http://b/5", "http://b/6">>),
      UrlDict(<<"http://a/1", "http://b/1", "http://a/2">>) }
\* The redirects of the servers: none; from host a to host b; within host
\* a; from host b to host a; a URL that redirects to itself; two URLs that
\* redirect to each other; to https with nothing else changed; to https and
\* another path; a redirect to a URL that answers 302 without a Location
\* (written "").
Webs ==
    { <<>>,
      "http://a/1" :> "http://b/9",
      "http://a/1" :> "http://a/9",
      "http://b/1" :> "http://a/9",
      "http://b/1" :> "http://b/1",
      ("http://b/1" :> "http://b/9") @@ ("http://b/9" :> "http://b/1"),
      "http://a/1" :> "https://a/1",
      "http://a/1" :> "https://a/9",
      ("http://a/1" :> "http://a/9") @@ ("http://a/9" :> "") }

InitFetch ==
    /\ sexpr = NoneV
    /\ tree = NoneV
    /\ calls = <<>>
    /\ TitleBlockIdle
    /\ DiffIdle
    /\ ExportIdle
    /\ url_dict \in UrlDicts
    /\ web \in Webs
    /\ queues = <<>>
    /\ workers = <<>>
    /\ tasks_done = 0
    /\ tasks_total = 0
    /\ results = <<>>
    /\ returned = NoneV
    /\ taken = <<>>
    /\ report = NoneV

NextFetch ==
    \/ FetchAndVerifyUrls
    \/ \E w \in 1..Len(workers) : WorkerStart(w)
    \/ \E w \in 1..Len(workers) : ResponsePdf(w)
    \/ \E w \in 1..Len(workers) : ResponseRedirect(w)
    \/ \E w \in 1..Len(workers) : ResponseTooManyRedirects(w)
    \/ \E w \in 1..Len(workers) : ResponseRaises(w)
    \/ Return
    \/ ProcessLibrary

SpecFetch == InitFetch /\ [][NextFetch]_vars

\* The event loop runs a task that can run, and every request is answered
\* or times out (timeout=10, line 49).
SpecFetchLive == SpecFetch /\ WF_vars(NextFetch)

\* C19: at every moment of fetch_and_verify_urls at most
\* CONCURRENT_LIMIT_PER_HOST requests are in flight to one host, the
\* requests that follow a redirect to another host counted.
C19_AtMostLimitInFlightPerHost ==
    \A host \in {"a", "b"} : InFlight(host) <= CONCURRENT_LIMIT_PER_HOST

\* The response worker w is waiting for is a 301 or 302, and this step
\* handles it.
RedirectAnswered(w) ==
    /\ workers[w].pc = "request"
    /\ workers[w].request \in DOMAIN web
    /\ workers'[w] # workers[w]
\* The result the step adds: to the results of the fetch_url call that goes
\* on, or at the end of the results of the item when the call returns.
AddedResult(w) ==
    IF tasks_done' = tasks_done THEN workers'[w].found[Len(workers'[w].found)]
    ELSE results'[Len(results')]

\* C22: whenever a fetched URL answers with status 301 or 302, the result
\* added for the symbol is a DatasheetWarning, not a DatasheetError, for that
\* URL (the URL requested or the one it has moved to), whatever the number of
\* redirects left and whatever the change of scheme and location.
C22_RedirectGivesWarning ==
    [][\A w \in 1..Len(workers) :
          RedirectAnswered(w) =>
              /\ isinstance(AddedResult(w), "DatasheetWarning")
              /\ AddedResult(w).symbol = workers[w].symbol
              /\ AddedResult(w).url \in {workers[w].request, web[workers[w].request]}]_vars

\* The n-th URL requested for an item with the URL url, and the prefix of the
\* n-th call of fetch_url.
RECURSIVE Hop(_, _)
Hop(url, n) == IF n = 1 THEN url ELSE web[Hop(url, n - 1)]
RECURSIVE Redirected(_)
Redirected(n) == IF n = 1 THEN "" ELSE Redirected(n - 1) \o "[Redirected] "
\* The first n requests for url are all answered by a redirect with a Location.
RECURSIVE AllRedirects(_, _)
AllRedirects(url, n) ==
    \/ n = 0
    \/ /\ AllRedirects(url, n - 1)
       /\ Hop(url, n) \in DOMAIN web
       /\ web[Hop(url, n)] # ""
\* The results of the symbol among rs, in their order.
ResultsOf(symbol, rs) == SelectSeq(rs, LAMBDA r : r.symbol = symbol)

Fetching == { w \in 1..Len(workers) : workers[w].pc = "request" }

\* Each entry is taken at most once, by a worker of the queue of its host; an
\* item taken is either being fetched by the worker that took it or counted in
\* tasks_done, once; and everything not taken is still in the queues.
TakenOnce ==
    /\ \A i, j \in 1..Len(taken) : taken[i][2] = taken[j][2] => i = j
    /\ \A i \in 1..Len(taken) :
          \E n \in 1..Len(url_dict) :
              /\ url_dict[n][1] = taken[i][2]
              /\ workers[taken[i][1]].host = hostname(url_dict[n][2])
    /\ \A w \in Fetching : \E i \in 1..Len(taken) : taken[i] = <<w, workers[w].symbol>>
    /\ tasks_done + Cardinality(Fetching) = Len(taken)
    /\ tasks_done <= Len(url_dict)
    /\ workers # <<>> =>
          /\ tasks_total = Len(url_dict)
          /\ \A n \in 1..Len(url_dict) :
                \/ \E i \in 1..Len(taken) : taken[i][2] = url_dict[n][1]
                \/ \E k \in 1..Len(queues[hostname(url_dict[n][2])]) :
                      queues[hostname(url_dict[n][2])][k] = url_dict[n]

\* fetch_and_verify_urls has returned: every task is counted, every queue is
\* empty (its join completes), every entry has been taken, and the results
\* returned are those of all entries: one or more for an entry whose URL
\* redirects, exactly one for an entry whose fetch raised, none for a PDF.
ReturnedAll ==
    /\ returned # NoneV
    /\ returned.v = results
    /\ tasks_done = tasks_total
    /\ \A host \in DOMAIN queues : queues[host] = <<>>
    /\ Fetching = {}
    /\ Len(taken) = Len(url_dict)
    /\ \A n \in 1..Len(url_dict) :
          /\ url_dict[n][2] \in DOMAIN web <=> ResultsOf(url_dict[n][1], returned.v) # <<>>
          /\ (\E k \in 1..(redirects_left_default + 1) :
                 AllRedirects(url_dict[n][2], k - 1) /\ Hop(url_dict[n][2], k) \in DOMAIN web
                 /\ web[Hop(url_dict[n][2], k)] = "")
             => ResultsOf(url_dict[n][1], returned.v) =
                  <<DatasheetError(url_dict[n][1], url_dict[n][2],
                        "Exception while fetching datasheet: <class 'KeyError'>: 'Location'")>>
    /\ \A n \in 1..Len(returned.v) :
          \E i \in 1..Len(url_dict) : url_dict[i][1] = returned.v[n].symbol

\* C28: for every non-empty url_dict and under any interleaving of the
\* workers, each entry is taken from the queue of its host by exactly one
\* worker and fetched once, tasks_done is incremented once per entry, also
\* when fetch_url raises, and in the end tasks_done equals tasks_total, the
\* queues are empty and the call returns with the results of all entries.
C28_EveryEntryOnceAndReturned == []TakenOnce /\ <>[]ReturnedAll

\* The call has returned for six entries, one of them with a fetch that
\* raised.
C28_Witness ==
    /\ ReturnedAll
    /\ \E n \in 1..Len(returned.v) :
          returned.v[n].message = "Exception while fetching datasheet: <class 'KeyError'>: 'Location'"
    /\ Len(url_dict) > CONCURRENT_LIMIT_PER_HOST

\* The counts of the symbols of the library among the results rs.
SymbolsWithError(rs) ==
    { rs[n].symbol : n \in { k \in 1..Len(rs) : isinstance(rs[k], "DatasheetError") } }
SymbolsWithWarning(rs) ==
    { rs[n].symbol : n \in { k \in 1..Len(rs) : isinstance(rs[k], "DatasheetWarning") } }

\* C27: the statistics process_library writes to the YAML report and prints
\* are the counts of the symbols of the library: symbols_with_error the
\* number of symbols with at least one DatasheetError, symbols_with_warning_only
\* the number of symbols with a DatasheetWarning and no DatasheetError; and
\* they are the two numbers of the header of the HTML page.
C27_StatisticsAreSymbolCounts ==
    report # NoneV =>
        /\ report.statistics.symbols_with_error = Cardinality(SymbolsWithError(returned.v))
        /\ report.statistics.symbols_with_warning_only =
               Cardinality(SymbolsWithWarning(returned.v) \ SymbolsWithError(returned.v))
        /\ report.statistics = report.html

-----------------------------------------------------------------------------
\* DiffPositions.py: compare_pcbs on two position tables.  A table is a
\* function from the reference designators of its index to the component rows
\* (the DataFrame indexed by Ref that read_kicad_pos_file returns).

\* Lines 15-20: class ChangeType(enum.IntEnum)
ChangeType == [Value |-> 1, Package |-> 2, Position |-> 3, Rotation |-> 4, Side |-> 5]

\* Lines 22-27: class Change
Change(ref, changetype, old, new) ==
    [ref |-> ref, changetype |-> changetype, old |-> old, new |-> new]

\* Lines 33-48: compare_component_entries(ref, comp1, comp2)
compare_component_entries(ref, comp1, comp2) ==
    (IF comp1.Val # comp2.Val
     THEN <<Change(ref, ChangeType.Value, <<comp1.Val>>, <<comp2.Val>>)>> ELSE <<>>)
    \o (IF comp1.Package # comp2.Package
        THEN <<Change(ref, ChangeType.Package, <<comp1.Package>>, <<comp2.Package>>)>> ELSE <<>>)
    \o (IF comp1.PosX # comp2.PosX \/ comp1.PosY # comp2.PosY
        THEN <<Change(ref, ChangeType.Position,
                      <<comp1.PosX, comp1.PosY>>, <<comp2.PosX, comp2.PosY>>)>> ELSE <<>>)
    \o (IF comp1.Rot # comp2.Rot
        THEN <<Change(ref, ChangeType.Rotation, <<comp1.Rot>>, <<comp2.Rot>>)>> ELSE <<>>)
    \o (IF comp1.Side # comp2.Side
        THEN <<Change(ref, ChangeType.Side, <<comp1.Side>>, <<comp2.Side>>)>> ELSE <<>>)

\* The reference designators of the inputs, and their order as Python strings.
RefDes == <<"C1", "R1", "R2">>

RefRank == ("C1" :> 1) @@ ("R1" :> 2) @@ ("R2" :> 3)

\* Lines 61-64: for ref in common_refdes: changes += compare_component_entries(..)
\* The iteration order of a set of strings is not fixed; the sort of line 67
\* has a different key for every change, so the order chosen here (by rank)
\* does not show in the result.
RECURSIVE compare_common(_, _, _, _)
compare_common(old, new, common_refdes, n) ==
    IF n > Len(RefDes) THEN <<>>
    ELSE (IF RefDes[n] \in common_refdes
          THEN compare_component_entries(RefDes[n], old[RefDes[n]], new[RefDes[n]])
          ELSE <<>>)
         \o compare_common(old, new, common_refdes, n + 1)

\* Line 65: [change for change in changes if change.changetype not in ignore]
RECURSIVE not_ignored(_, _)
not_ignored(chs, ignore) ==
    IF chs = <<>> THEN <<>>
    ELSE (IF chs[1].changetype \in ignore THEN <<>> ELSE <<chs[1]>>)
         \o not_ignored(Tail(chs), ignore)

\* Line 67: changes.sort(key=lambda change: (change.changetype, change.ref))
sort_changes(chs) ==
    SortedItems([n \in 1..Len(chs) |->
                    <<<<chs[n].changetype, RefRank[chs[n].ref]>>, chs[n]>>])

\* Lines 50-69: compare_pcbs(old, new).  added_refdes and removed_refdes are
\* computed (lines 56-57) and not used afterwards.
compare_pcbs(old, new) ==
    LET old_refdes == DOMAIN old
        new_refdes == DOMAIN new
        common_refdes == old_refdes \cap new_refdes
        ignore == {ChangeType.Value}
    IN  Lst(sort_changes(not_ignored(compare_common(old, new, common_refdes, 1), ignore)))

\* Inputs: tables over the first MaxRefs reference designators, with rows that
\* differ from the first row in one column each.
MaxRefs == 2

Component(val, package, x, y, rot, side) ==
    [Val |-> val, Package |-> package, PosX |-> x, PosY |-> y, Rot |-> rot, Side |-> side]

Components ==
    { Component("1k", "0603", 10, 20, 0, "top"),
      Component("2k", "0603", 10, 20, 0, "top"),
      Component("1k", "0805", 10, 20, 0, "top"),
      Component("1k", "0603", 11, 20, 0, "top"),
      Component("1k", "0603", 10, 21, 0, "top"),
      Component("1k", "0603", 10, 20, 90, "top"),
      Component("1k", "0603", 10, 20, 0, "bottom") }

Tables ==
    UNION { [refs -> Components] : refs \in SUBSET {RefDes[n] : n \in 1..MaxRefs} }

ComparePcbs ==
    /\ changes = NoneV
    /\ changes' = compare_pcbs(old_pos, new_pos)
    /\ UNCHANGED <<old_pos, new_pos, sexprVars, tbVars, fetchVars, exportVars>>

InitDiff ==
    /\ sexpr = NoneV
    /\ tree = NoneV
    /\ calls = <<>>
    /\ TitleBlockIdle
    /\ FetchIdle
    /\ ExportIdle
    /\ old_pos \in Tables
    /\ new_pos \in Tables
    /\ changes = NoneV

NextDiff == ComparePcbs

SpecDiff == InitDiff /\ [][NextDiff]_vars

added_refdes == DOMAIN new_pos \ DOMAIN old_pos

removed_refdes == DOMAIN old_pos \ DOMAIN new_pos

Reported(ref, changetype) ==
    \E n \in 1..Len(changes.v) :
        changes.v[n].ref = ref /\ changes.v[n].changetype = changetype

\* C20: the change list compare_pcbs returns names every reference
\* designator that is only in the new table (added) and every one that is
\* only in the old table (removed), and holds the position, rotation and
\* side changes of the components in both tables.
C20_AddedAndRemovedReported ==
    changes # NoneV =>
        /\ \A ref \in added_refdes \cup removed_refdes :
              \E n \in 1..Len(changes.v) : changes.v[n].ref = ref
        /\ \A ref \in DOMAIN old_pos \cap DOMAIN new_pos :
              /\ (old_pos[ref].PosX # new_pos[ref].PosX \/ old_pos[ref].PosY # new_pos[ref].PosY)
                    => Reported(ref, ChangeType.Position)
              /\ old_pos[ref].Rot # new_pos[ref].Rot => Reported(ref, ChangeType.Rotation)
              /\ old_pos[ref].Side # new_pos[ref].Side => Reported(ref, ChangeType.Side)

(***************************************************************************)
(* KiCadCIExporter (CIExport.py): the command line and                     *)
(* export_kicad_project, in a project directory with the project file      *)
(* p.kicad_pro.  A run of kicad-cli is recorded as an event; it writes its  *)
(* output outside the project directory.                                   *)
(***************************************************************************)
ProjectFile == "p.kicad_pro"
MainSchematic == "p.kicad_sch"
SubSchematic == "q.kicad_sch"
PcbFile == "p.kicad_pcb"

\* os.path.splitext(path)[0] of the project file
splitext0(path) == CASE path = "p.kicad_pro" -> "p"

\* Lines 397-400: glob.glob(os.path.join(self.directory, "*.kicad_sch")); the
\* backups (*.kicad_sch.ki-pa.bak) do not match.  glob returns the paths in
\* the order of the directory, which is any order.
kicad_sch_files(files) == DOMAIN files \cap {MainSchematic, SubSchematic}
Orders(S) ==
    { order \in UNION { [1..n -> S] : n \in {Cardinality(S)} } :
        \A i, j \in DOMAIN order : i # j => order[i] # order[j] }

\* (Lines 413-419 without the test of line 416.)
find_kicad_main_schematic_unchecked(files, project_filename) ==
    Str(splitext0(project_filename) \o ".kicad_sch")
\* Lines 413-419
find_kicad_main_schematic(files, project_filename) ==
    IF splitext0(project_filename) \o ".kicad_sch" \notin DOMAIN files
    THEN Exc("NoSchematicFile")
    ELSE Str(splitext0(project_filename) \o ".kicad_sch")

\* Lines 623-629
find_kicad_pcb_filename(files, project_filename) ==
    IF splitext0(project_filename) \o ".kicad_pcb" \notin DOMAIN files
    THEN Exc("ValueError")
    ELSE Str(splitext0(project_filename) \o ".kicad_pcb")

\* Lines 699-705: the dictionary enabled_exports made from the parsed flags.
\* args.no_board_step is not read.
EnabledExports(a) ==
    [step |-> ~a.no_step,
     schematic_pdf |-> ~a.no_schematic_pdf,
     pcb_pdf |-> ~a.no_pcb_pdf,
     gerber |-> ~a.no_gerber,
     pcb_svg |-> ~a.no_svg]

\* What git prints for the commit date and the short revision id.
git_get_commit_date == <<"2", "4">>
git_describe_short_revid == <<"r">>
\* Line 318
comment1(revision, custom_revision) ==
    IF ~custom_revision
    THEN <<"G", "i", "t", " ", "r", "e", "v", "i", "s", "i", "o", "n", ":", " ">> \o revision
    ELSE <<"C", "u", "s", "t", "o", "m", " ", "r", "e", "v", "i", "s", "i", "o", "n">>
\* Lines 319-327
export_tags(revision, custom_revision, extra_attributes) ==
    DictUpdate(<< <<KeyDate, git_get_commit_date>>,
                  <<KeyRev, git_describe_short_revid>>,
                  <<KeyComment \o <<" ", "1">>, comment1(revision, custom_revision)>> >>,
               extra_attributes)

Event(ev, arg) == [ev |-> ev, arg |-> arg]
Outcome(files, events, ret) == [files |-> files, events |-> events, ret |-> ret]

\* Lines 328-332: the loop over the schematics; the call of
\* export_kicad_schematic_pdf is in the body of the loop.  fail_at = n: the
\* n-th run of kicad-cli raises an exception that
\* export_kicad_schematic_pdf does not catch (an OSError when kicad-cli
\* cannot be started; a CalledProcessError is caught, lines 368-371).
RECURSIVE stamp_loop(_, _, _, _, _, _, _, _)
stamp_step(files, schematics, n, main, tags, sep, events, fail_at, r) ==
    IF IsExc(r.ret) THEN Outcome(r.files, events, r.ret)
    ELSE IF fail_at = n
         THEN Outcome(r.files,
                      events \o <<Event("update", schematics[n]), Event("schematic_pdf", main)>>,
                      Exc("OSError"))
         ELSE stamp_loop(r.files, schematics, n + 1, main, tags, sep,
                         events \o <<Event("update", schematics[n]), Event("schematic_pdf", main)>>,
                         fail_at)
stamp_loop(files, schematics, n, main, tags, sep, events, fail_at) ==
    IF n > Len(schematics) THEN Outcome(files, events, NoneV)
    ELSE stamp_step(files, schematics, n, main, tags, sep, events, fail_at,
                    update_file_inplace_with_backup(files, schematics[n], tags, sep))

\* Lines 334-335
RECURSIVE restore_loop(_, _, _, _)
restore_step(files, schematics, n, events, r) ==
    IF IsExc(r.ret) THEN Outcome(r.files, events, r.ret)
    ELSE restore_loop(r.files, schematics, n + 1, Append(events, Event("restore", schematics[n])))
restore_loop(files, schematics, n, events) ==
    IF n > Len(schematics) THEN Outcome(files, events, NoneV)
    ELSE restore_step(files, schematics, n, events, restore_backup(files, schematics[n]))

\* (The restore loop left out.)
restore_stamped_never(stamped, schematics) == stamped
\* Lines 333-335: reached when the loop of lines 328-332 has not raised.
restore_stamped(stamped, schematics) ==
    IF IsExc(stamped.ret) THEN stamped
    ELSE restore_loop(stamped.files, schematics, 1, stamped.events)

\* Lines 315-337.  NoSchematicFile is caught (line 336); fail_at = -1: git
\* fails (lines 321-322), which is not caught.
export_schematics(files, main, tags, sep, found, restored, fail_at) ==
    IF IsExc(main) THEN Outcome(files, <<>>, NoneV)
    ELSE IF fail_at = -1 THEN Outcome(files, <<>>, Exc("CalledProcessError"))
    ELSE restore_stamped(stamp_loop(files, found, 1, main.v, tags, sep, <<>>, fail_at), restored)

\* Lines 340-353: a missing board is caught (line 351).
export_pcb(pcb_filename, enabled) ==
    IF IsExc(pcb_filename) THEN <<>>
    ELSE (IF enabled.step
          THEN <<Event("step", "full"), Event("step", "board_only")>> ELSE <<>>)
         \o (IF enabled.pcb_pdf THEN <<Event("pcb_pdf", pcb_filename.v)>> ELSE <<>>)
         \o (IF enabled.gerber THEN <<Event("gerber", pcb_filename.v)>> ELSE <<>>)
         \o (IF enabled.pcb_svg THEN <<Event("pcb_svg", pcb_filename.v)>> ELSE <<>>)

with_pcb(s, project_filename, enabled) ==
    IF IsExc(s.ret) THEN s
    ELSE Outcome(s.files,
                 s.events \o export_pcb(find_kicad_pcb_filename(s.files, project_filename), enabled),
                 NoneV)

\* Lines 313-353: export_kicad_project.  found and restored are what the two
\* calls of find_all_kicad_schematics return.
export_kicad_project(files, project_filename, enabled, tags, sep, found, restored, fail_at) ==
    IF enabled.schematic_pdf
    THEN with_pcb(export_schematics(files, find_kicad_main_schematic(files, project_filename),
                                    tags, sep, found, restored, fail_at),
                  project_filename, enabled)
    ELSE with_pcb(Outcome(files, <<>>, NoneV), project_filename, enabled)

\* Inputs: the flags of the command line, and project directories in which
\* the schematics and the board are there or not.
MaxExports == 2
\* The command lines: no flag, one of the six flags, all six.
FlagNames == {"no_step", "no_board_step", "no_schematic_pdf", "no_pcb_pdf", "no_gerber", "no_svg"}
Flags ==
    { [name \in FlagNames |-> name \in given] :
          given \in {{}, FlagNames} \cup { {name} : name \in FlagNames } }
TitledSchematic ==
    Bytes(<<HeaderLine, UuidLine, PaperLine, StartLine,
            FieldLine(KeyRev, Quoted(<<"1">>)), EndLine, LastLine>>, <<"\n">>, TRUE)
SchematicFiles ==
    { TitledSchematic,
      Bytes(<<HeaderLine, UuidLine, PaperLine, LastLine>>, <<"\r", "\n">>, TRUE) }
Directory(main, sub, pcb) ==
    [path \in {ProjectFile} \cup {MainSchematic : x \in main} \cup {SubSchematic : x \in sub}
                \cup {PcbFile : x \in pcb} |->
        IF path = MainSchematic THEN CHOOSE x \in main : TRUE
        ELSE IF path = SubSchematic THEN CHOOSE x \in sub : TRUE
        ELSE <<>>]
Directories ==
    { Directory(main, sub, pcb) :
        main \in {{}} \cup {{x} : x \in SchematicFiles},
        sub \in {{}, {TitledSchematic}},
        pcb \in {{}, {<<>>}} }

\* Lines 663-705 and 750-761: the command line is parsed and the exporter made.
Main(a) ==
    /\ args = NoneV
    /\ args' = a
    /\ enabled_exports' = EnabledExports(a)
    /\ UNCHANGED <<exports, sexprVars, tbVars, fetchVars, diffVars>>

\* Line 762: exporter.export_kicad_project()
Exported(found, fail_at, r) ==
    /\ fs' = r.files
    /\ exports' = Append(exports, [before |-> fs, after |-> r.files, found |-> found,
                                   fail_at |-> fail_at, events |-> r.events, ret |-> r.ret])
ExportKicadProject(found, restored, fail_at) ==
    /\ args # NoneV
    /\ Len(exports) < MaxExports
    /\ Exported(found, fail_at,
                export_kicad_project(fs, ProjectFile, enabled_exports,
                                     export_tags(<<"v", "1">>, FALSE, <<>>), linesep,
                                     found, restored, fail_at))
    /\ UNCHANGED <<args, enabled_exports, linesep, lines_without_title_block, title_block_data,
                   ops, sexprVars, fetchVars, diffVars>>

InitExport ==
    /\ sexpr = NoneV
    /\ tree = NoneV
    /\ calls = <<>>
    /\ fs \in Directories
    /\ linesep = <<"\n">>
    /\ lines_without_title_block = NoneV
    /\ title_block_data = NoneV
    /\ ops = <<>>
    /\ FetchIdle
    /\ DiffIdle
    /\ ExportIdle

NextExport ==
    \/ \E a \in Flags : Main(a)
    \/ \E found \in Orders(kicad_sch_files(fs)), restored \in Orders(kicad_sch_files(fs)),
          fail_at \in {-1, 0, 1, 2} :
           ExportKicadProject(found, restored, fail_at)

SpecExport == InitExport /\ [][NextExport]_vars

(***************************************************************************)
(* Properties of KiCadCIExporter.                                          *)
(***************************************************************************)
Ran(call, ev, arg) == \E n \in 1..Len(call.events) : call.events[n] = Event(ev, arg)
RanAny(call, ev) == \E n \in 1..Len(call.events) : call.events[n].ev = ev

\* C21: in a project with a main schematic and a board, a call of
\* export_kicad_project that returns runs each export exactly when the flag
\* that names it was not given: the board-only STEP export unless
\* --no-board-step, the full STEP export unless --no-step, and likewise the
\* schematic PDF, the PCB PDF, the Gerber and the SVG export.
C21_EachFlagDisablesItsExport ==
    \A c \in 1..Len(exports) :
        (/\ exports[c].ret = NoneV
         /\ MainSchematic \in DOMAIN exports[c].before
         /\ PcbFile \in DOMAIN exports[c].before) =>
            /\ Ran(exports[c], "step", "board_only") <=> ~args.no_board_step
            /\ Ran(exports[c], "step", "full") <=> ~args.no_step
            /\ RanAny(exports[c], "schematic_pdf") <=> ~args.no_schematic_pdf
            /\ RanAny(exports[c], "pcb_pdf") <=> ~args.no_pcb_pdf
            /\ RanAny(exports[c], "gerber") <=> ~args.no_gerber
            /\ RanAny(exports[c], "pcb_svg") <=> ~args.no_svg

\* The places of the events of a kind in a call.
Places(call, ev) == { n \in 1..Len(call.events) : call.events[n].ev = ev }
\* A call that went through the schematic export and returned.
SchematicsExported(call) ==
    /\ call.ret = NoneV
    /\ enabled_exports.schematic_pdf
    /\ MainSchematic \in DOMAIN call.before

\* C23: a call of export_kicad_project with the schematic export enabled and
\* n >= 1 schematics in the directory runs export_kicad_schematic_pdf exactly
\* once, after update_file_inplace_with_backup has stamped every schematic
\* that find_all_kicad_schematics found and before restore_backup has
\* restored any.
C23_PdfOnceAfterAllStamped ==
    \A c \in 1..Len(exports) :
        SchematicsExported(exports[c]) =>
            /\ Cardinality(Places(exports[c], "schematic_pdf")) = 1
            /\ { exports[c].events[n].arg : n \in Places(exports[c], "update") }
                  = kicad_sch_files(exports[c].before)
            /\ \A p \in Places(exports[c], "schematic_pdf") :
                  /\ \A u \in Places(exports[c], "update") : u < p
                  /\ \A r \in Places(exports[c], "restore") : p < r

\* The tags export_kicad_project stamps the schematics with.
StampTags == export_tags(<<"v", "1">>, FALSE, <<>>)
\* The bytes of a schematic after it has been stamped.
Stamped(bytes) ==
    update_file((MainSchematic :> bytes), MainSchematic, MainSchematic, StampTags, linesep).files[MainSchematic]

C30_NoMainSchematicNoStamp ==
    \A c \in 1..Len(exports) :
        MainSchematic \notin DOMAIN exports[c].before =>
            /\ exports[c].after = exports[c].before
            /\ ~RanAny(exports[c], "update") /\ ~RanAny(exports[c], "schematic_pdf")
            /\ exports[c].ret = NoneV
            /\ PcbFile \in DOMAIN exports[c].before =>
                  /\ Ran(exports[c], "step", "full") <=> enabled_exports.step
                  /\ RanAny(exports[c], "pcb_pdf") <=> enabled_exports.pcb_pdf
                  /\ RanAny(exports[c], "gerber") <=> enabled_exports.gerber
                  /\ RanAny(exports[c], "pcb_svg") <=> enabled_exports.pcb_svg

\* A call in a directory with the sheet q.kicad_sch and the board but
\* without p.kicad_sch, schematic export enabled, that ran the PCB PDF export.
C30_Witness ==
    /\ Len(exports) >= 1
    /\ MainSchematic \notin DOMAIN exports[1].before
    /\ SubSchematic \in DOMAIN exports[1].before
    /\ enabled_exports.schematic_pdf
    /\ RanAny(exports[1], "pcb_pdf")

=========================================================================
